---- MODULE Spec2Model ----
(***************************************************************************)
(* Model of the asynchronous document-ingestion pipeline of the medical    *)
(* report application: the upload handler, processReportAsync, the         *)
(* in-memory store (MemStorage), the OCR call extractTextFromImage and the  *)
(* keyword classifier detectDocumentType.                                   *)
(*                                                                          *)
(* JavaScript values are modelled as records with a "type" field:           *)
(*   strings   [type |-> "string", chars |-> <<"a","b",...>>]               *)
(*   null      [type |-> "null"]                                            *)
(*   objects   [type |-> "object", ...]                                     *)
(* Enumerated strings that the code only compares (status, reportType,      *)
(* eventType, mime type) are TLA+ strings.                                  *)
(*                                                                          *)
(* Specifications:                                                          *)
(*   Spec, FairSpec     uploads and pipeline runs; the extraction call is   *)
(*                      one step that returns a text or throws              *)
(*   OcrSpec,           the pipeline on image uploads with every await of   *)
(*   OcrFairSpec        extractTextFromImage spelled out                    *)
(*   StoreSpec          createReport and updateReport with the time stamps  *)
(*                      of the rows (the other specifications leave         *)
(*                      createdAt, updatedAt and date out of the rows)      *)
(*   ClassifySpec       detectDocumentType on bounded texts                 *)
(*   OrphanSpec         Spec, and a run on an id the store does not hold    *)
(*   PairSpec           two runs on distinct reports, interleaved           *)
(*   EarlySpec          the earlier variant of the upload handler and of    *)
(*                      processReportAsync                                  *)
(*   ShareSpec          GET /api/reports/:id and the sharing routes         *)
(*   RegisterSpec       POST /api/auth/register                             *)
(*                                                                          *)
(* Every await of processReportAsync is one action.  A collaborator call    *)
(* (extractor, analysis engine, store) either returns or throws, chosen     *)
(* nondeterministically; a store call that throws has no effect on the      *)
(* store.                                                                   *)
(***************************************************************************)
EXTENDS Integers, Sequences, FiniteSets, TLC

VARIABLES
    reports,        \* MemStorage.reports: report id -> Report row
    medications,    \* MemStorage.medications, in insertion order
    healthTimeline, \* MemStorage.healthTimeline, in insertion order
    runs,           \* report id -> the locals and position of its processReportAsync call
    responses,      \* report id -> the response POST /api/reports/upload sent for it
    text,           \* input of detectDocumentType (classifier specification)
    docType,        \* result of detectDocumentType (classifier specification)
    ocr,            \* report id -> the locals and position of its extractTextFromImage call
    storeCall,      \* the clock, and the last call of the store with its return value
                    \* (store specification)
    users,          \* MemStorage.users, in insertion order
    sharedReports,  \* MemStorage.sharedReports, in insertion order
    requests,       \* the requests a route handler is at an await of, in arrival order
    replies         \* the responses the account and sharing routes have sent, in order

vars == <<reports, medications, healthTimeline, runs, responses, text, docType, ocr,
          storeCall, users, sharedReports, requests, replies>>

----------------------------------------------------------------------------
(* Bounds *)

MaxReports == 1     \* uploads per behaviour
MaxMeds == 2        \* medication entries the engine returns, at most
MaxFrags == 3       \* fragments concatenated into a classifier input

----------------------------------------------------------------------------
(* JavaScript strings, null, truthiness *)

Null == [type |-> "null"]

Str(cs) == [type |-> "string", chars |-> cs]

EmptyStr == Str(<<>>)

\* JavaScript truthiness of a string-or-null value
Truthy(v) == v.type = "string" /\ v.chars # <<>>

\* a || b
Or(a, b) == IF Truthy(a) THEN a ELSE b

Concat(a, b) == Str(a.chars \o b.chars)

DigitChars == <<"0","1","2","3","4","5","6","7","8","9">>

RECURSIVE Digits(_)
\* decimal representation of a natural number, as a template literal prints it
Digits(n) ==
    IF n < 10 THEN <<DigitChars[n + 1]>>
    ELSE Digits(n \div 10) \o <<DigitChars[(n % 10) + 1]>>

Upper == <<"A","B","C","D","E","F","G","H","I","J","K","L","M","N","O","P","Q","R","S","T","U","V","W","X","Y","Z">>
Lower == <<"a","b","c","d","e","f","g","h","i","j","k","l","m","n","o","p","q","r","s","t","u","v","w","x","y","z">>

ToLowerChar(c) ==
    IF \E i \in 1..Len(Upper) : Upper[i] = c
    THEN Lower[CHOOSE i \in 1..Len(Upper) : Upper[i] = c]
    ELSE c

\* String.prototype.toLowerCase
ToLowerCase(cs) == [i \in 1..Len(cs) |-> ToLowerChar(cs[i])]

\* String.prototype.includes
Includes(cs, kw) ==
    \E i \in 0..(Len(cs) - Len(kw)) : SubSeq(cs, i + 1, i + Len(kw)) = kw

IsSpace(c) == c \in {" ", "\n", "\t"}

RECURSIVE TrimStart(_)
TrimStart(cs) ==
    IF cs # <<>> /\ IsSpace(Head(cs)) THEN TrimStart(Tail(cs)) ELSE cs

RECURSIVE TrimEnd(_)
TrimEnd(cs) ==
    IF cs # <<>> /\ IsSpace(cs[Len(cs)]) THEN TrimEnd(SubSeq(cs, 1, Len(cs) - 1)) ELSE cs

\* String.prototype.trim
Trim(cs) == TrimEnd(TrimStart(cs))

RECURSIVE Join(_, _)
\* Array.prototype.join
Join(list, sep) ==
    IF list = <<>> THEN <<>>
    ELSE IF Len(list) = 1 THEN list[1]
    ELSE list[1] \o sep \o Join(Tail(list), sep)

----------------------------------------------------------------------------
(* services/ocr.ts: detectDocumentType *)

PrescriptionKeywords ==
    << <<"p","r","e","s","c","r","i","p","t","i","o","n">>,
       <<"m","e","d","i","c","a","t","i","o","n">>,
       <<"d","o","s","a","g","e">> >>

BloodTestKeywords ==
    << <<"b","l","o","o","d">>,
       <<"g","l","u","c","o","s","e">>,
       <<"c","h","o","l","e","s","t","e","r","o","l">>,
       <<"h","e","m","o","g","l","o","b","i","n">>,
       <<"p","l","a","t","e","l","e","t">> >>

ImagingKeywords ==
    << <<"x","-","r","a","y">>,
       <<"r","a","d","i","o","g","r","a","p","h">>,
       <<"i","m","a","g","i","n","g">> >>

IncludesAny(cs, kws) == \E k \in 1..Len(kws) : Includes(cs, kws[k])

\* faulty variant: checks the blood-test keywords before the prescription keywords
detectDocumentTypeBloodFirst(cs) ==
    LET lowerText == ToLowerCase(cs)
    IN  IF IncludesAny(lowerText, BloodTestKeywords) THEN "blood_test"
        ELSE IF IncludesAny(lowerText, PrescriptionKeywords) THEN "prescription"
        ELSE IF IncludesAny(lowerText, ImagingKeywords) THEN "x-ray"
        ELSE "general"

detectDocumentType(cs) ==
    LET lowerText == ToLowerCase(cs)
    IN  IF IncludesAny(lowerText, PrescriptionKeywords) THEN "prescription"
        ELSE IF IncludesAny(lowerText, BloodTestKeywords) THEN "blood_test"
        ELSE IF IncludesAny(lowerText, ImagingKeywords) THEN "x-ray"
        ELSE "general"

----------------------------------------------------------------------------
(* server/storage.ts: MemStorage *)

\* Map.get: the row, or undefined (modelled as Null) when the id is absent
getReport(rs, id) == IF id \in DOMAIN rs THEN rs[id] ELSE Null

\* the row createReport builds from an InsertReport
NewReport(id, ins) ==
    [ id |-> id,
      userId |-> ins.userId,
      fileName |-> ins.fileName,
      fileUrl |-> ins.fileUrl,
      reportType |-> ins.reportType,
      originalText |-> Or(ins.originalText, Null),
      extractedData |-> Null,
      analysis |-> Null,
      summary |-> Null,
      status |-> ins.status ]

\* randomUUID: an id no row has
FreshReportId(rs) == CHOOSE id \in 1..(Cardinality(DOMAIN rs) + 1) : id \notin DOMAIN rs

createReport(rs, ins) ==
    LET id == FreshReportId(rs)
    IN  [i \in DOMAIN rs \cup {id} |-> IF i = id THEN NewReport(id, ins) ELSE rs[i]]

\* { ...report, ...updates }
Merge(row, updates) ==
    [f \in DOMAIN row \cup DOMAIN updates |->
        IF f \in DOMAIN updates THEN updates[f] ELSE row[f]]

\* the value of a call that returns undefined
Undefined == [type |-> "undefined"]

\* faulty variant: builds the row from the updates alone, without ...report
UpdatedReportFromUpdates(row, updates, stamp) == Merge(updates, stamp)

\* { ...report, ...updates, updatedAt: new Date() }, where stamp is the
\* updatedAt entry
UpdatedReport(row, updates, stamp) == Merge(Merge(row, updates), stamp)

\* faulty variant: sets the row whether or not the id is in the map
updateReportUpsert(rs, id, updates, stamp) ==
    [i \in DOMAIN rs \cup {id} |->
        IF i = id
        THEN UpdatedReport(IF id \in DOMAIN rs THEN rs[id] ELSE [id |-> id], updates, stamp)
        ELSE rs[i]]

\* updateReport: the map it leaves
updateReportWith(rs, id, updates, stamp) ==
    IF id \notin DOMAIN rs THEN rs
    ELSE [rs EXCEPT ![id] = UpdatedReport(@, updates, stamp)]

\* updateReport: the value it returns
updateReportResult(rs, id, updates, stamp) ==
    IF id \notin DOMAIN rs THEN Undefined
    ELSE UpdatedReport(rs[id], updates, stamp)

\* faulty variant: spreads the updates over every row of the map
updateReportEveryRow(rs, id, updates) ==
    [i \in DOMAIN rs |-> UpdatedReport(rs[i], updates, << >>)]

\* updateReport as the pipeline specifications use it: the rows without
\* their time stamps
updateReport(rs, id, updates) == updateReportWith(rs, id, updates, << >>)

\* the store specification before any call: the clock, and no call yet
NoStoreCall ==
    [now |-> 0, op |-> "none", id |-> 0, updates |-> << >>, returned |-> Null]

\* the row createMedication builds from an InsertMedication
NewMedication(id, ins) ==
    [ id |-> id,
      userId |-> ins.userId,
      reportId |-> ins.reportId,
      name |-> ins.name,
      dosage |-> ins.dosage,
      frequency |-> ins.frequency,
      instructions |-> Or(ins.instructions, Null),
      sideEffects |-> Or(ins.sideEffects, Null),
      isActive |-> ins.isActive ]

createMedication(ms, ins) == Append(ms, NewMedication(Len(ms) + 1, ins))

\* the row createHealthTimelineEntry builds from an InsertHealthTimeline
NewTimelineEntry(id, ins) ==
    [ id |-> id,
      userId |-> ins.userId,
      reportId |-> ins.reportId,
      eventType |-> ins.eventType,
      title |-> ins.title,
      description |-> Or(ins.description, Null),
      metrics |-> ins.metrics,
      notes |-> Null ]

createHealthTimelineEntry(tl, ins) == Append(tl, NewTimelineEntry(Len(tl) + 1, ins))

----------------------------------------------------------------------------
(* Fixed messages of routes.ts and services/ocr.ts *)

MsgAnalysisFallbackSummary ==
    Str(<<"D","o","c","u","m","e","n","t"," ","p","r","o","c","e","s","s","e","d"," ","s","u","c","c","e","s","s","f","u","l","l","y","."," ","P","r","o","f","e","s","s","i","o","n","a","l"," ","m","e","d","i","c","a","l"," ","r","e","v","i","e","w"," ","r","e","c","o","m","m","e","n","d","e","d",".">>)

MsgAnalysisUnavailable ==
    Str(<<"A","n","a","l","y","s","i","s"," ","u","n","a","v","a","i","l","a","b","l","e"," ","-"," ","p","l","e","a","s","e"," ","c","o","n","s","u","l","t"," ","h","e","a","l","t","h","c","a","r","e"," ","p","r","o","v","i","d","e","r">>)

MsgTechnicalFailure ==
    Str(<<"P","r","o","c","e","s","s","i","n","g"," ","f","a","i","l","e","d"," ","d","u","e"," ","t","o"," ","t","e","c","h","n","i","c","a","l"," ","e","r","r","o","r","."," ","P","l","e","a","s","e"," ","t","r","y"," ","u","p","l","o","a","d","i","n","g"," ","a","g","a","i","n",".">>)

MsgBackgroundFailure ==
    Str(<<"P","r","o","c","e","s","s","i","n","g"," ","f","a","i","l","e","d"," ","d","u","e"," ","t","o"," ","t","e","c","h","n","i","c","a","l"," ","e","r","r","o","r">>)

MsgNoTextDetected ==
    Str(<<"N","o"," ","t","e","x","t"," ","d","e","t","e","c","t","e","d">>)

MsgNoTextInPdf ==
    Str(<<"N","o"," ","t","e","x","t"," ","f","o","u","n","d"," ","i","n"," ","P","D","F">>)

PrefixOcr ==
    Str(<<"O","C","R"," ","p","r","o","c","e","s","s","i","n","g"," ","f","a","i","l","e","d",":"," ">>)

PrefixPdf ==
    Str(<<"P","D","F"," ","t","e","x","t"," ","e","x","t","r","a","c","t","i","o","n"," ","f","a","i","l","e","d",":"," ">>)

MsgOcrTimeout ==
    Str(<<"O","C","R"," ","t","i","m","e","o","u","t"," ","a","f","t","e","r"," ","3","0"," ","s","e","c","o","n","d","s">>)

PrescriptionContains ==
    Str(<<"P","r","e","s","c","r","i","p","t","i","o","n"," ","c","o","n","t","a","i","n","s"," ">>)

MedicationsSuffix ==
    Str(<<" ","m","e","d","i","c","a","t","i","o","n","(","s",")">>)

----------------------------------------------------------------------------
(* Inputs: what the collaborators can hand to the pipeline *)

Users == {"u1"}

MimeTypes == {"application/pdf", "image/png"}

FileNames == {"scan"}

\* raw text the OCR engine or the PDF text layer yields
RawTexts ==
    { <<>>,
      <<"D","o","s","a","g","e"," ","5">>,
      <<"G","L","U","C","O","S","E">>,
      <<"X","-","R","a","y","\n">>,
      <<"n","o","t","e">> }

\* messages of the faults the OCR engine raises inside extractTextFromImage
OcrFaults == { MsgOcrTimeout }

\* messages of the faults pdfjs raises inside extractTextFromPDF
PdfFaults == { Str(<<"b","a","d"," ","p","d","f">>) }

\* summaries the medical-analysis engine returns: the engine's JSON is used as
\* it is, so the summary can be any string, the empty one included
EngineSummaries == { Str(<<"a","l","l"," ","n","o","r","m","a","l">>), EmptyStr }

\* the k-th medication entry the medication engine returns
EngineMedication(k) ==
    [ type |-> "object",
      name |-> Str(<<"m","e","d">> \o Digits(k)),
      dosage |-> Str(Digits(k) \o <<"m","g">>),
      frequency |-> Str(<<"d","a","i","l","y">>),
      instructions |-> IF k % 2 = 1 THEN Str(<<"w","i","t","h"," ","f","o","o","d">>) ELSE EmptyStr,
      sideEffects |-> IF k % 2 = 1 THEN << <<"n","a","u","s","e","a">>, <<"r","a","s","h">> >> ELSE <<>> ]

EngineMedicationLists == { [k \in 1..n |-> EngineMedication(k)] : n \in 0..MaxMeds }

----------------------------------------------------------------------------
(* services/ocr.ts: the results of the two extractors *)

\* extractTextFromImage: the text of the OCRResult it returns
OcrResultText(raw) == Or(Str(raw), MsgNoTextDetected)

\* extractTextFromPDF: the string it returns
PdfResultText(raw) == Or(Str(Trim(raw)), MsgNoTextInPdf)

\* outcomes of the extraction call of processReportAsync for a mime type:
\* a returned text, or a thrown Error with its message
ExtractionOutcomes(mimeType) ==
    IF mimeType = "application/pdf"
    THEN { [ok |-> TRUE, value |-> PdfResultText(raw)] : raw \in RawTexts }
         \cup { [ok |-> FALSE, value |-> Concat(PrefixPdf, m)] : m \in PdfFaults }
    ELSE { [ok |-> TRUE, value |-> OcrResultText(raw)] : raw \in RawTexts }
         \cup { [ok |-> FALSE, value |-> Concat(PrefixOcr, m)] : m \in OcrFaults }

----------------------------------------------------------------------------
(* routes.ts: processReportAsync, one action per await *)

Terminal == {"completed", "failed"}

\* one entry of a run's call log: the collaborator call, its place in the
\* code, whether it returned (ok) or threw, and the loop index k (0 outside
\* the medication loop)
Call(op, site, ok, k) == [op |-> op, site |-> site, ok |-> ok, k |-> k]

\* the locals of processReportAsync when it reaches its first await
NewRun ==
    [ pc |-> "extract",
      extractedText |-> EmptyStr,
      reportType |-> "general",
      extractionFailed |-> FALSE,
      analysis |-> Null,
      extractedData |-> Null,
      summary |-> EmptyStr,
      medicationList |-> <<>>,
      medIndex |-> 0,
      engineInput |-> Null,
      promise |-> "pending",
      log |-> <<>> ]

\* faulty variant: hands the engine the first characters of the text only
AnalysisInputTruncated(run) == Str(SubSeq(run.extractedText.chars, 1, 4))

\* the argument of analyzeMedicalReport and of extractMedicationInfo
AnalysisInput(run) == run.extractedText

\* faulty variant: sends every type but blood_test to the medication engine
AfterCheckpointMedicationsElse(reportType) ==
    IF reportType = "blood_test" THEN "analyze" ELSE "extractMedications"

\* faulty variant: sends only blood tests to the medical-analysis engine
AfterCheckpointBloodTestOnly(reportType) ==
    IF reportType = "blood_test" THEN "analyze"
    ELSE IF reportType = "prescription" THEN "extractMedications"
    ELSE "finalWrite"

\* the dispatch on reportType that follows the checkpoint write
AfterCheckpoint(reportType) ==
    IF reportType \in {"blood_test", "general"} THEN "analyze"
    ELSE IF reportType = "prescription" THEN "extractMedications"
    ELSE "finalWrite"

\* faulty variant: marks every run completed
FinalStatusAlwaysCompleted(extractionFailed) == "completed"

FinalStatus(extractionFailed) == IF extractionFailed THEN "failed" ELSE "completed"

\* faulty variant: always stores the analysis summary
FinalUpdateAnalysisSummary(run) ==
    [ analysis |-> run.analysis,
      extractedData |-> run.extractedData,
      summary |-> run.summary,
      status |-> FinalStatus(run.extractionFailed) ]

\* the update of the final write
FinalUpdate(run) ==
    [ analysis |-> run.analysis,
      extractedData |-> run.extractedData,
      summary |-> IF run.extractionFailed THEN run.extractedText ELSE run.summary,
      status |-> FinalStatus(run.extractionFailed) ]

\* faulty variant: creates the timeline entry whatever extraction did
AfterFinalWriteAlwaysTimeline(extractionFailed) == "timelineGetReport"

\* where the run goes when the final write has returned
AfterFinalWrite(extractionFailed) ==
    IF ~extractionFailed THEN "timelineGetReport" ELSE "returned"

\* faulty variant: leaves the status out of the failure update
FailureUpdateWithoutStatus == [summary |-> MsgTechnicalFailure]

\* the update of the outer catch block
FailureUpdate == [status |-> "failed", summary |-> MsgTechnicalFailure]

\* faulty variant: has no try/catch around the timeline creation: the error
\* reaches the outer catch block
TimelineCatchOuter == "outerCatch"

\* where a throw of getReport or createHealthTimelineEntry in the timeline
\* block goes: it is caught and logged
TimelineCatch == "returned"

\* faulty variant: has no try/catch around the failure update: the error leaves
\* processReportAsync
FailureUpdateCatchRethrow == "thrown"

\* where a throw of the failure update goes: it is caught and logged
FailureUpdateCatch == "returned"

\* faulty variant: the catch block only logs and keeps what Stage 2 had set
AnalysisCatchKeepsLocals(run) == [run EXCEPT !.pc = "finalWrite"]

\* the catch block around the analysis stage
AnalysisCatch(run) ==
    [run EXCEPT !.summary = MsgAnalysisFallbackSummary,
                !.extractedData = [type |-> "object", message |-> MsgAnalysisUnavailable],
                !.pc = "finalWrite"]

\* faulty variant: has no try/catch inside the medication loop: the error of
\* createMedication reaches the catch block of the analysis stage
MedicationCatchOuter(run) == AnalysisCatch(run)

\* faulty variant: leaves the medication loop on the first failure
MedicationCatchAbort(run) == [run EXCEPT !.pc = "finalWrite"]

\* the catch block inside the medication loop: log and go on with the next entry
MedicationCatch(run) ==
    [run EXCEPT !.medIndex = @ + 1,
                !.pc = IF run.medIndex + 1 > Len(run.medicationList)
                       THEN "finalWrite" ELSE "createMedication"]

\* faulty variant: writes the checkpoint only when the extraction returned
Stage1CheckpointOnSuccess(run, out) ==
    IF out.ok
    THEN [run EXCEPT !.extractedText = out.value,
                     !.reportType =
                         IF Truthy(out.value) /\ Len(out.value.chars) > 0
                         THEN detectDocumentType(out.value.chars)
                         ELSE "general",
                     !.log = Append(@, Call("extract", "stage1", TRUE, 0)),
                     !.pc = "checkpoint"]
    ELSE [run EXCEPT !.extractedText = out.value,
                     !.extractionFailed = TRUE,
                     !.log = Append(@, Call("extract", "stage1", FALSE, 0)),
                     !.pc = "finalWrite"]

\* the locals of the run when Stage 1 is over: the try block when the
\* extraction call returned (out.ok), the catch block when it threw
Stage1(run, out) ==
    IF out.ok
    THEN [run EXCEPT !.extractedText = out.value,
                     !.reportType =
                         IF Truthy(out.value) /\ Len(out.value.chars) > 0
                         THEN detectDocumentType(out.value.chars)
                         ELSE "general",
                     !.log = Append(@, Call("extract", "stage1", TRUE, 0)),
                     !.pc = "checkpoint"]
    ELSE [run EXCEPT !.extractedText = out.value,
                     !.extractionFailed = TRUE,
                     !.log = Append(@, Call("extract", "stage1", FALSE, 0)),
                     !.pc = "checkpoint"]

\* faulty variant: awaits processReportAsync before it answers, so the row and
\* the run exist while no response has been sent
UploadAwaitingPipeline(u, name) ==
    /\ Cardinality(DOMAIN reports) < MaxReports
    /\ LET id == FreshReportId(reports)
           ins == [ userId |-> u,
                    fileName |-> name,
                    fileUrl |-> <<"/uploads/", id, "_", name>>,
                    reportType |-> "general",
                    originalText |-> EmptyStr,
                    status |-> "processing" ]
       IN  /\ reports' = createReport(reports, ins)
           /\ runs' = [i \in DOMAIN runs \cup {id} |->
                          IF i = id THEN NewRun ELSE runs[i]]
    /\ UNCHANGED <<medications, healthTimeline, responses, text, docType, ocr, storeCall,
                 users, sharedReports, requests, replies>>

\* POST /api/reports/upload with a file, where createReport returns: the row
\* is created, the pipeline is started and runs to its first await, and the
\* response is sent.  (Without a file, or when createReport throws, the
\* handler answers 400 or 500 and leaves the store and the runs as they are.)
Upload(u, name) ==
    /\ Cardinality(DOMAIN reports) < MaxReports
    /\ LET id == FreshReportId(reports)
           ins == [ userId |-> u,
                    fileName |-> name,
                    fileUrl |-> <<"/uploads/", id, "_", name>>,
                    reportType |-> "general",
                    originalText |-> EmptyStr,
                    status |-> "processing" ]
       IN  /\ reports' = createReport(reports, ins)
           /\ runs' = [i \in DOMAIN runs \cup {id} |->
                          IF i = id THEN NewRun ELSE runs[i]]
           /\ responses' = [i \in DOMAIN responses \cup {id} |->
                          IF i = id
                          THEN [code |-> 200, message |-> "File uploaded successfully",
                                reportId |-> id]
                          ELSE responses[i]]
    /\ UNCHANGED <<medications, healthTimeline, text, docType, ocr, storeCall,
                 users, sharedReports, requests, replies>>

\* Stage 1: await extractTextFromPDF / extractTextFromImage, classification,
\* and the catch block of the extraction.  The uploaded file (its mime type
\* and what the extractor makes of its bytes) is an input of the run that is
\* read here and nowhere else, so it is drawn here.
Extract(r) ==
    /\ runs[r].pc = "extract"
    /\ \E mimeType \in MimeTypes : \E out \in ExtractionOutcomes(mimeType) :
        runs' = [runs EXCEPT ![r] = Stage1(@, out)]
    /\ UNCHANGED <<reports, medications, healthTimeline, responses, text, docType, ocr,
                 storeCall,
                 users, sharedReports, requests, replies>>

\* the checkpoint write: await storage.updateReport(originalText, reportType)
Checkpoint(r) ==
    /\ runs[r].pc = "checkpoint"
    /\ \E ok \in BOOLEAN :
        /\ reports' =
            IF ok
            THEN updateReport(reports, r, [ originalText |-> runs[r].extractedText,
                                            reportType |-> runs[r].reportType ])
            ELSE reports
        /\ runs' = [runs EXCEPT ![r] =
            [@ EXCEPT !.log = Append(@, Call("updateReport", "checkpoint", ok, 0)),
                      !.analysis = Null,
                      !.extractedData = Null,
                      !.summary = EmptyStr,
                      !.pc = IF ok THEN AfterCheckpoint(runs[r].reportType)
                             ELSE "outerCatch"]]
    /\ UNCHANGED <<medications, healthTimeline, responses, text, docType, ocr, storeCall,
                 users, sharedReports, requests, replies>>

\* Stage 2, blood_test or general: await analyzeMedicalReport(extractedText)
AnalyzeMedical(r) ==
    /\ runs[r].pc = "analyze"
    /\ \/ \E s \in EngineSummaries :
            LET result == [type |-> "object", summary |-> s, riskLevel |-> "low"]
            IN  runs' = [runs EXCEPT ![r] =
                    [@ EXCEPT !.engineInput = AnalysisInput(runs[r]),
                              !.analysis = result,
                              !.summary = result.summary,
                              !.extractedData = result,
                              !.log = Append(@, Call("analyzeMedicalReport", "stage2", TRUE, 0)),
                              !.pc = "finalWrite"]]
       \/ runs' = [runs EXCEPT ![r] =
              AnalysisCatch([@ EXCEPT !.engineInput = AnalysisInput(runs[r]),
                                      !.log =
                  Append(@, Call("analyzeMedicalReport", "stage2", FALSE, 0))])]
    /\ UNCHANGED <<reports, medications, healthTimeline, responses, text, docType, ocr,
                 storeCall,
                 users, sharedReports, requests, replies>>

\* Stage 2, prescription: await extractMedicationInfo(extractedText)
ExtractMedications(r) ==
    /\ runs[r].pc = "extractMedications"
    /\ \/ \E meds \in EngineMedicationLists :
            runs' = [runs EXCEPT ![r] =
                [@ EXCEPT !.engineInput = AnalysisInput(runs[r]),
                          !.medicationList = meds,
                          !.extractedData = [type |-> "object", medications |-> meds],
                          !.summary = Concat(Concat(PrescriptionContains, Str(Digits(Len(meds)))),
                                             MedicationsSuffix),
                          !.log = Append(@, Call("extractMedicationInfo", "stage2", TRUE, 0)),
                          !.pc = "medicationsGetReport"]]
       \/ runs' = [runs EXCEPT ![r] =
              AnalysisCatch([@ EXCEPT !.engineInput = AnalysisInput(runs[r]),
                                      !.log =
                  Append(@, Call("extractMedicationInfo", "stage2", FALSE, 0))])]
    /\ UNCHANGED <<reports, medications, healthTimeline, responses, text, docType, ocr,
                 storeCall,
                 users, sharedReports, requests, replies>>

\* Stage 2, prescription: await storage.getReport(reportId) before the loop
MedicationsGetReport(r) ==
    /\ runs[r].pc = "medicationsGetReport"
    /\ \/ runs' = [runs EXCEPT ![r] =
              [@ EXCEPT !.log = Append(@, Call("getReport", "medications", TRUE, 0)),
                        !.medIndex = 1,
                        !.pc = IF getReport(reports, r) # Null /\ Len(runs[r].medicationList) >= 1
                               THEN "createMedication" ELSE "finalWrite"]]
       \/ runs' = [runs EXCEPT ![r] =
              AnalysisCatch([@ EXCEPT !.log =
                  Append(@, Call("getReport", "medications", FALSE, 0))])]
    /\ UNCHANGED <<reports, medications, healthTimeline, responses, text, docType, ocr,
                 storeCall,
                 users, sharedReports, requests, replies>>

\* the InsertMedication built for one entry of the engine's list
MedicationInsert(report, med) ==
    [ userId |-> report.userId,
      reportId |-> report.id,
      name |-> med.name,
      dosage |-> med.dosage,
      frequency |-> med.frequency,
      instructions |-> med.instructions,
      sideEffects |-> Or(Str(Join(med.sideEffects, <<",", " ">>)), EmptyStr),
      isActive |-> TRUE ]

\* Stage 2, prescription: one turn of the loop, await storage.createMedication
CreateMedication(r) ==
    /\ runs[r].pc = "createMedication"
    /\ LET k == runs[r].medIndex
           med == runs[r].medicationList[k]
       IN  \/ /\ medications' = createMedication(medications, MedicationInsert(reports[r], med))
              /\ runs' = [runs EXCEPT ![r] =
                    [@ EXCEPT !.log = Append(@, Call("createMedication", "loop", TRUE, k)),
                              !.medIndex = k + 1,
                              !.pc = IF k + 1 > Len(runs[r].medicationList)
                                     THEN "finalWrite" ELSE "createMedication"]]
           \/ /\ medications' = medications
              /\ runs' = [runs EXCEPT ![r] =
                    MedicationCatch([@ EXCEPT !.log =
                        Append(@, Call("createMedication", "loop", FALSE, k))])]
    /\ UNCHANGED <<reports, healthTimeline, responses, text, docType, ocr, storeCall,
                 users, sharedReports, requests, replies>>

\* the update of the upload handler's .catch fallback
FallbackUpdate == [status |-> "failed", summary |-> MsgBackgroundFailure]

\* processReportAsync has returned or thrown: its promise settles, and the
\* upload handler's .catch handler runs only when it rejected, issuing its own
\* updateReport, which returns (ok) or throws.  The settlement follows the
\* last step of the run without another await, so it is part of that step.
Settle(run, ok) ==
    IF run.pc = "returned"
    THEN [run EXCEPT !.promise = "fulfilled", !.pc = "done"]
    ELSE IF run.pc = "thrown"
    THEN [run EXCEPT !.promise = "rejected",
                     !.log = Append(@, Call("updateReport", "fallback", ok, 0)),
                     !.pc = "done"]
    ELSE run

\* the outcomes of the fallback's updateReport, when the settlement issues it
SettleOutcomes(run) == IF run.pc = "thrown" THEN BOOLEAN ELSE {TRUE}

\* the store after the settlement of the run of report r
SettleStore(rs, r, run, ok) ==
    IF run.pc = "thrown" /\ ok THEN updateReport(rs, r, FallbackUpdate) ELSE rs

\* Stage 3: the final write, await storage.updateReport(analysis, ..., status)
FinalWrite(r) ==
    /\ runs[r].pc = "finalWrite"
    /\ \E ok \in BOOLEAN :
        LET run == [runs[r] EXCEPT
                      !.log = Append(@, Call("updateReport", "final", ok, 0)),
                      !.pc = IF ok THEN AfterFinalWrite(runs[r].extractionFailed)
                             ELSE "outerCatch"]
            store == IF ok THEN updateReport(reports, r, FinalUpdate(runs[r])) ELSE reports
        IN  \E fallbackOk \in SettleOutcomes(run) :
            /\ reports' = SettleStore(store, r, run, fallbackOk)
            /\ runs' = [runs EXCEPT ![r] = Settle(run, fallbackOk)]
    /\ UNCHANGED <<medications, healthTimeline, responses, text, docType, ocr, storeCall,
                 users, sharedReports, requests, replies>>

\* Stage 3: await storage.getReport(reportId) of the timeline block
TimelineGetReport(r) ==
    /\ runs[r].pc = "timelineGetReport"
    /\ \E ok \in BOOLEAN :
        LET run == [runs[r] EXCEPT
                      !.log = Append(@, Call("getReport", "timeline", ok, 0)),
                      !.pc = IF ok
                             THEN (IF getReport(reports, r) # Null
                                   THEN "createTimelineEntry" ELSE "returned")
                             ELSE TimelineCatch]
        IN  \E fallbackOk \in SettleOutcomes(run) :
            /\ reports' = SettleStore(reports, r, run, fallbackOk)
            /\ runs' = [runs EXCEPT ![r] = Settle(run, fallbackOk)]
    /\ UNCHANGED <<medications, healthTimeline, responses, text, docType, ocr, storeCall,
                 users, sharedReports, requests, replies>>

\* reportType.replace('_', ' ')
HumanizedType(reportType) == IF reportType = "blood_test" THEN "blood test" ELSE reportType

\* the InsertHealthTimeline built from the report row and the run's locals
TimelineInsert(report, run) ==
    [ userId |-> report.userId,
      reportId |-> report.id,
      eventType |-> IF run.reportType = "prescription" THEN "medication_change"
                    ELSE "lab_result",
      title |-> <<HumanizedType(run.reportType), " - ", report.fileName>>,
      description |-> run.summary,
      metrics |-> run.extractedData ]

\* Stage 3: await storage.createHealthTimelineEntry
CreateTimelineEntry(r) ==
    /\ runs[r].pc = "createTimelineEntry"
    /\ \E ok \in BOOLEAN :
        LET run == [runs[r] EXCEPT
                      !.log = Append(@, Call("createHealthTimelineEntry", "timeline", ok, 0)),
                      !.pc = IF ok THEN "returned" ELSE TimelineCatch]
        IN  \E fallbackOk \in SettleOutcomes(run) :
            /\ healthTimeline' =
                IF ok
                THEN createHealthTimelineEntry(healthTimeline,
                                               TimelineInsert(reports[r], runs[r]))
                ELSE healthTimeline
            /\ reports' = SettleStore(reports, r, run, fallbackOk)
            /\ runs' = [runs EXCEPT ![r] = Settle(run, fallbackOk)]
    /\ UNCHANGED <<medications, responses, text, docType, ocr, storeCall,
                 users, sharedReports, requests, replies>>

\* the outer catch block: await storage.updateReport(status failed, ...)
OuterCatch(r) ==
    /\ runs[r].pc = "outerCatch"
    /\ \E ok \in BOOLEAN :
        LET run == [runs[r] EXCEPT
                      !.log = Append(@, Call("updateReport", "outerCatch", ok, 0)),
                      !.pc = IF ok THEN "returned" ELSE FailureUpdateCatch]
            store == IF ok THEN updateReport(reports, r, FailureUpdate) ELSE reports
        IN  \E fallbackOk \in SettleOutcomes(run) :
            /\ reports' = SettleStore(store, r, run, fallbackOk)
            /\ runs' = [runs EXCEPT ![r] = Settle(run, fallbackOk)]
    /\ UNCHANGED <<medications, healthTimeline, responses, text, docType, ocr, storeCall,
                 users, sharedReports, requests, replies>>

Init ==
    /\ reports = << >>
    /\ medications = << >>
    /\ healthTimeline = << >>
    /\ runs = << >>
    /\ responses = << >>
    /\ text = << >>
    /\ docType = "unset"
    /\ ocr = << >>
    /\ storeCall = NoStoreCall
    /\ users = << >>
    /\ sharedReports = << >>
    /\ requests = << >>
    /\ replies = << >>

Next ==
    \/ \E u \in Users, name \in FileNames : Upload(u, name)
    \/ \E r \in DOMAIN runs : Extract(r)
    \/ \E r \in DOMAIN runs : Checkpoint(r)
    \/ \E r \in DOMAIN runs : AnalyzeMedical(r)
    \/ \E r \in DOMAIN runs : ExtractMedications(r)
    \/ \E r \in DOMAIN runs : MedicationsGetReport(r)
    \/ \E r \in DOMAIN runs : CreateMedication(r)
    \/ \E r \in DOMAIN runs : FinalWrite(r)
    \/ \E r \in DOMAIN runs : TimelineGetReport(r)
    \/ \E r \in DOMAIN runs : CreateTimelineEntry(r)
    \/ \E r \in DOMAIN runs : OuterCatch(r)

Spec == Init /\ [][Next]_vars

\* the steps of the run of report r
Step(r) ==
    /\ r \in DOMAIN runs
    /\ \/ Extract(r)
       \/ Checkpoint(r)
       \/ AnalyzeMedical(r)
       \/ ExtractMedications(r)
       \/ MedicationsGetReport(r)
       \/ CreateMedication(r)
       \/ FinalWrite(r)
       \/ TimelineGetReport(r)
       \/ CreateTimelineEntry(r)
       \/ OuterCatch(r)

\* Every awaited collaborator call settles (returns or throws) and the event
\* loop then resumes the run: a run that can take a step eventually takes it.
FairSpec == Spec /\ \A r \in 1..MaxReports : WF_vars(Step(r))

----------------------------------------------------------------------------
(* The classifier on its own: detectDocumentType applied to bounded texts *)

\* pieces of text; concatenations put keywords together in mixed case, split
\* them across pieces, and combine keywords of several categories
Fragments ==
    { <<"B","l","o">>, <<"O","D"," ">>,
      <<"D","o","s","a","g","e">>,
      <<"X","-","r","a","y">>,
      <<"i","m","a","g","i","n","G">>,
      <<"m","e","d","i","c","a","t","i","o","n","s">>,
      <<"g","l","u","c","o","s","e">>,
      <<"n","o","t","e"," ">> }

RECURSIVE FragmentTexts(_)
\* the concatenations of at most n fragments
FragmentTexts(n) ==
    IF n = 0 THEN { <<>> }
    ELSE LET shorter == FragmentTexts(n - 1)
         IN  shorter \cup { t \o f : t \in shorter, f \in Fragments }

InitClassify ==
    /\ reports = << >>
    /\ medications = << >>
    /\ healthTimeline = << >>
    /\ runs = << >>
    /\ responses = << >>
    /\ text \in FragmentTexts(MaxFrags)
    /\ docType = "unset"
    /\ ocr = << >>
    /\ storeCall = NoStoreCall
    /\ users = << >>
    /\ sharedReports = << >>
    /\ requests = << >>
    /\ replies = << >>

Classify ==
    /\ docType = "unset"
    /\ docType' = detectDocumentType(text)
    /\ UNCHANGED <<reports, medications, healthTimeline, runs, responses, text, ocr, storeCall,
                 users, sharedReports, requests, replies>>

ClassifySpec == InitClassify /\ [][Classify]_vars

----------------------------------------------------------------------------
(* services/ocr.ts: extractTextFromImage, one action per settled promise *)

MsgUnknownError ==
    Str(<<"U","n","k","n","o","w","n"," ","e","r","r","o","r">>)

\* new Error(message)
ErrorOf(message) == [type |-> "error", message |-> message]

\* what the Tesseract worker rejects createWorker, setParameters and
\* recognize with: an Error, or a value that is not an Error
EngineFaults ==
    { ErrorOf(Str(<<"e","n","g","i","n","e"," ","f","a","u","l","t">>)),
      Str(<<"c","r","a","s","h">>) }

\* what worker.terminate rejects with
TerminateFaults ==
    { ErrorOf(Str(<<"t","e","r","m","i","n","a","t","e"," ","f","a","i","l","e","d">>)) }

\* error instanceof Error ? error.message : 'Unknown error'
ErrorMessage(error) ==
    IF error.type = "error" THEN error.message ELSE MsgUnknownError

\* the locals of extractTextFromImage when it reaches await createWorker
NewOcrCall ==
    [ pc |-> "createWorker",
      worker |-> FALSE,           \* let worker: assigned or not
      timeoutId |-> "unset",      \* unset, armed, cleared or fired
      recognition |-> "idle",     \* the promise of worker.recognize
      data |-> Null,              \* data.text of the recognition result
      error |-> Null,             \* the value the catch block caught
      raceError |-> Null,         \* the value the recognition race rejected with
      terminate |-> <<>>,         \* the worker.terminate calls: TRUE returned, FALSE threw
      result |-> Null ]           \* how the call settled

\* clearTimeout: disarms a timer that has not fired
ClearTimeout(timeoutId) == IF timeoutId = "armed" THEN "cleared" ELSE timeoutId

\* the return statement: the OCRResult, of which the pipeline reads the text
OcrReturn(call) == [ok |-> TRUE, value |-> OcrResultText(call.data.chars)]

\* the throw statement that ends the catch block
OcrThrow(error) == [ok |-> FALSE, value |-> Concat(PrefixOcr, ErrorMessage(error))]

\* entry of the catch block with the caught value: the timer is cleared; with
\* a worker the block goes on to await worker.terminate, without one it throws
OcrCatch(call, error) ==
    [call EXCEPT !.error = error,
                 !.timeoutId = ClearTimeout(@),
                 !.pc = IF call.worker THEN "catchTerminate" ELSE "done",
                 !.result = IF call.worker THEN Null ELSE OcrThrow(error)]

\* Stage 1 of a run whose file is not a PDF: extractTextFromImage is called
\* and runs to await createWorker
OcrBegin(r) ==
    /\ runs[r].pc = "extract"
    /\ r \notin DOMAIN ocr
    /\ ocr' = [i \in DOMAIN ocr \cup {r} |-> IF i = r THEN NewOcrCall ELSE ocr[i]]
    /\ UNCHANGED <<reports, medications, healthTimeline, runs, responses, text, docType,
                 storeCall,
                 users, sharedReports, requests, replies>>

\* worker = await createWorker('eng') settles
CreateWorker(r) ==
    /\ ocr[r].pc = "createWorker"
    /\ \/ ocr' = [ocr EXCEPT ![r] = [@ EXCEPT !.worker = TRUE, !.pc = "setParameters"]]
       \/ \E e \in EngineFaults : ocr' = [ocr EXCEPT ![r] = OcrCatch(@, e)]
    /\ UNCHANGED <<reports, medications, healthTimeline, runs, responses, text, docType,
                 storeCall,
                 users, sharedReports, requests, replies>>

\* await worker.setParameters settles; when it returns the timer is armed and
\* worker.recognize is started
SetParameters(r) ==
    /\ ocr[r].pc = "setParameters"
    /\ \/ ocr' = [ocr EXCEPT ![r] = [@ EXCEPT !.timeoutId = "armed",
                                               !.recognition = "pending",
                                               !.pc = "recognize"]]
       \/ \E e \in EngineFaults : ocr' = [ocr EXCEPT ![r] = OcrCatch(@, e)]
    /\ UNCHANGED <<reports, medications, healthTimeline, runs, responses, text, docType,
                 storeCall,
                 users, sharedReports, requests, replies>>

\* worker.recognize resolves before the timer fires: the timer is cleared and
\* the race resolves with the recognition result
RecognizeResolves(r) ==
    /\ ocr[r].pc = "recognize"
    /\ \E raw \in RawTexts :
        ocr' = [ocr EXCEPT ![r] = [@ EXCEPT !.timeoutId = ClearTimeout(@),
                                            !.recognition = "settled",
                                            !.data = Str(raw),
                                            !.pc = "terminate"]]
    /\ UNCHANGED <<reports, medications, healthTimeline, runs, responses, text, docType,
                 storeCall,
                 users, sharedReports, requests, replies>>

\* worker.recognize rejects before the timer fires: the timer is cleared and
\* the race rejects with the recognition error
RecognizeRejects(r) ==
    /\ ocr[r].pc = "recognize"
    /\ \E e \in EngineFaults :
        ocr' = [ocr EXCEPT ![r] =
                   OcrCatch([@ EXCEPT !.timeoutId = ClearTimeout(@),
                                      !.recognition = "settled",
                                      !.raceError = e], e)]
    /\ UNCHANGED <<reports, medications, healthTimeline, runs, responses, text, docType,
                 storeCall,
                 users, sharedReports, requests, replies>>

\* the timer fires while worker.recognize is pending: the race rejects with
\* the timeout error and the recognition goes on
TimerFires(r) ==
    /\ ocr[r].pc = "recognize"
    /\ ocr[r].timeoutId = "armed"
    /\ ocr' = [ocr EXCEPT ![r] =
                  OcrCatch([@ EXCEPT !.timeoutId = "fired",
                                     !.raceError = ErrorOf(MsgOcrTimeout)],
                           ErrorOf(MsgOcrTimeout))]
    /\ UNCHANGED <<reports, medications, healthTimeline, runs, responses, text, docType,
                 storeCall,
                 users, sharedReports, requests, replies>>

\* worker.recognize settles after the timer has fired: clearTimeout and the
\* resolve or reject of the settled race have no effect
RecognizeLate(r) ==
    /\ ocr[r].recognition = "pending"
    /\ ocr[r].timeoutId = "fired"
    /\ ocr' = [ocr EXCEPT ![r] = [@ EXCEPT !.recognition = "settled"]]
    /\ UNCHANGED <<reports, medications, healthTimeline, runs, responses, text, docType,
                 storeCall,
                 users, sharedReports, requests, replies>>

\* await worker.terminate() of the try block settles: the call returns the
\* OCRResult, or the error of terminate is caught by the catch block
Terminate(r) ==
    /\ ocr[r].pc = "terminate"
    /\ \/ ocr' = [ocr EXCEPT ![r] =
                     [@ EXCEPT !.terminate = Append(@, TRUE),
                               !.pc = "done",
                               !.result = OcrReturn(ocr[r])]]
       \/ \E e \in TerminateFaults :
            ocr' = [ocr EXCEPT ![r] =
                       OcrCatch([@ EXCEPT !.terminate = Append(@, FALSE)], e)]
    /\ UNCHANGED <<reports, medications, healthTimeline, runs, responses, text, docType,
                 storeCall,
                 users, sharedReports, requests, replies>>

\* await worker.terminate() of the catch block settles; its error is logged
\* and dropped, and the block throws the error it caught
CatchTerminate(r) ==
    /\ ocr[r].pc = "catchTerminate"
    /\ \E ok \in BOOLEAN :
        ocr' = [ocr EXCEPT ![r] =
                   [@ EXCEPT !.terminate = Append(@, ok),
                             !.pc = "done",
                             !.result = OcrThrow(ocr[r].error)]]
    /\ UNCHANGED <<reports, medications, healthTimeline, runs, responses, text, docType,
                 storeCall,
                 users, sharedReports, requests, replies>>

\* Stage 1 resumes when extractTextFromImage has settled
ExtractImage(r) ==
    /\ runs[r].pc = "extract"
    /\ r \in DOMAIN ocr
    /\ ocr[r].pc = "done"
    /\ runs' = [runs EXCEPT ![r] = Stage1(@, ocr[r].result)]
    /\ UNCHANGED <<reports, medications, healthTimeline, responses, text, docType, ocr,
                 storeCall,
                 users, sharedReports, requests, replies>>

\* the pipeline on image uploads, with the OCR call spelled out
OcrNext ==
    \/ \E u \in Users, name \in FileNames : Upload(u, name)
    \/ \E r \in DOMAIN runs : OcrBegin(r)
    \/ \E r \in DOMAIN ocr : CreateWorker(r)
    \/ \E r \in DOMAIN ocr : SetParameters(r)
    \/ \E r \in DOMAIN ocr : RecognizeResolves(r)
    \/ \E r \in DOMAIN ocr : RecognizeRejects(r)
    \/ \E r \in DOMAIN ocr : TimerFires(r)
    \/ \E r \in DOMAIN ocr : RecognizeLate(r)
    \/ \E r \in DOMAIN ocr : Terminate(r)
    \/ \E r \in DOMAIN ocr : CatchTerminate(r)
    \/ \E r \in DOMAIN runs : ExtractImage(r)
    \/ \E r \in DOMAIN runs : Checkpoint(r)
    \/ \E r \in DOMAIN runs : AnalyzeMedical(r)
    \/ \E r \in DOMAIN runs : ExtractMedications(r)
    \/ \E r \in DOMAIN runs : MedicationsGetReport(r)
    \/ \E r \in DOMAIN runs : CreateMedication(r)
    \/ \E r \in DOMAIN runs : FinalWrite(r)
    \/ \E r \in DOMAIN runs : TimelineGetReport(r)
    \/ \E r \in DOMAIN runs : CreateTimelineEntry(r)
    \/ \E r \in DOMAIN runs : OuterCatch(r)

OcrSpec == Init /\ [][OcrNext]_vars

\* the steps the event loop takes on its own for report r: the continuations
\* of the run, the timer of the recognition race, and the store and analysis
\* calls of the pipeline
OcrLoopStep(r) ==
    /\ r \in DOMAIN runs
    /\ \/ OcrBegin(r)
       \/ (r \in DOMAIN ocr /\ TimerFires(r))
       \/ ExtractImage(r)
       \/ Checkpoint(r)
       \/ AnalyzeMedical(r)
       \/ ExtractMedications(r)
       \/ MedicationsGetReport(r)
       \/ CreateMedication(r)
       \/ FinalWrite(r)
       \/ TimelineGetReport(r)
       \/ CreateTimelineEntry(r)
       \/ OuterCatch(r)

\* Timers fire and continuations run.  The promises of the Tesseract worker
\* (createWorker, setParameters, recognize, terminate) settle when the worker
\* answers: nothing in extractTextFromImage obliges them to.
OcrFairSpec == OcrSpec /\ \A r \in 1..MaxReports : WF_vars(OcrLoopStep(r))

----------------------------------------------------------------------------
(* The store on its own: MemStorage.createReport and updateReport with the *)
(* time stamps of the rows, called with present and absent ids             *)

MaxRows == 2        \* rows createReport puts into the store
MaxClock == 4       \* readings of the clock

\* createReport with its time stamps: createdAt and updatedAt are new Date()
createReportAt(rs, ins, now) ==
    LET id == FreshReportId(rs)
    IN  [createReport(rs, ins) EXCEPT
            ![id] = Merge(@, [createdAt |-> now, updatedAt |-> now])]

\* the InsertReport of the upload handler
StoreInsert ==
    [ userId |-> "u1",
      fileName |-> "scan",
      fileUrl |-> <<"/uploads/", "scan">>,
      reportType |-> "general",
      originalText |-> EmptyStr,
      status |-> "processing" ]

\* Partial<Report> values handed to updateReport: the failure update, a
\* checkpoint update, an update without fields, and one that names updatedAt
StoreUpdates ==
    { FailureUpdate,
      [originalText |-> Str(<<"n","o","t","e">>), reportType |-> "prescription"],
      << >>,
      [status |-> "completed", updatedAt |-> 0] }

\* new Date(): the clock has advanced since the last call
ClockReadings == { t \in {storeCall.now + 1} : t <= MaxClock }

StoreCreate ==
    /\ Cardinality(DOMAIN reports) < MaxRows
    /\ \E now \in ClockReadings :
        /\ reports' = createReportAt(reports, StoreInsert, now)
        /\ storeCall' = [ now |-> now, op |-> "createReport",
                          id |-> FreshReportId(reports), updates |-> << >>,
                          returned |-> reports'[FreshReportId(reports)] ]
    /\ UNCHANGED <<medications, healthTimeline, runs, responses, text, docType, ocr,
                 users, sharedReports, requests, replies>>

StoreUpdate ==
    /\ \E id \in 1..(MaxRows + 1), updates \in StoreUpdates, now \in ClockReadings :
        LET stamp == [updatedAt |-> now]
        IN  /\ reports' = updateReportWith(reports, id, updates, stamp)
            /\ storeCall' = [ now |-> now, op |-> "updateReport",
                              id |-> id, updates |-> updates,
                              returned |-> updateReportResult(reports, id, updates, stamp) ]
    /\ UNCHANGED <<medications, healthTimeline, runs, responses, text, docType, ocr,
                 users, sharedReports, requests, replies>>

StoreNext == StoreCreate \/ StoreUpdate

StoreSpec == Init /\ [][StoreNext]_vars

----------------------------------------------------------------------------
(* processReportAsync on an id the store does not hold.  No route starts   *)
(* such a run; the guards `if (report)` of the medication fan-out and of   *)
(* the timeline block provide for it.                                      *)

\* the report id of the run that has no row
OrphanId == 1

InitOrphan ==
    /\ reports = << >>
    /\ medications = << >>
    /\ healthTimeline = << >>
    /\ runs = [r \in {OrphanId} |-> NewRun]
    /\ responses = << >>
    /\ text = << >>
    /\ docType = "unset"
    /\ ocr = << >>
    /\ storeCall = NoStoreCall
    /\ users = << >>
    /\ sharedReports = << >>
    /\ requests = << >>
    /\ replies = << >>

\* the runs whose report id is not in the store
OrphanRuns == DOMAIN runs \ DOMAIN reports

\* the steps of Next; no upload takes place while the run without a row is
\* under way
OrphanNext ==
    \/ (OrphanRuns = {} /\ \E u \in Users, name \in FileNames : Upload(u, name))
    \/ \E r \in DOMAIN runs : Extract(r)
    \/ \E r \in DOMAIN runs : Checkpoint(r)
    \/ \E r \in DOMAIN runs : AnalyzeMedical(r)
    \/ \E r \in DOMAIN runs : ExtractMedications(r)
    \/ \E r \in DOMAIN runs : MedicationsGetReport(r)
    \/ \E r \in DOMAIN runs : CreateMedication(r)
    \/ \E r \in DOMAIN runs : FinalWrite(r)
    \/ \E r \in DOMAIN runs : TimelineGetReport(r)
    \/ \E r \in DOMAIN runs : CreateTimelineEntry(r)
    \/ \E r \in DOMAIN runs : OuterCatch(r)

\* runs started by uploads, or one run on an id without a row
OrphanSpec == (Init \/ InitOrphan) /\ [][OrphanNext]_vars

----------------------------------------------------------------------------
(* Two pipelines at once: two uploads have been answered and their runs   *)
(* are at their first await.  Node runs one continuation at a time, so    *)
(* the runs interleave await by await.                                     *)

\* the owners of the two reports
PairOwners == <<"u1", "u2">>

\* the InsertReport of the upload handler for the report that gets id
UploadInsert(u, id, name) ==
    [ userId |-> u,
      fileName |-> name,
      fileUrl |-> <<"/uploads/", id, "_", name>>,
      reportType |-> "general",
      originalText |-> EmptyStr,
      status |-> "processing" ]

InitPair ==
    /\ \E name \in FileNames :
        reports = createReport(createReport(<< >>, UploadInsert(PairOwners[1], 1, name)),
                               UploadInsert(PairOwners[2], 2, name))
    /\ medications = << >>
    /\ healthTimeline = << >>
    /\ runs = [r \in DOMAIN PairOwners |-> NewRun]
    /\ responses = [r \in DOMAIN PairOwners |->
                       [code |-> 200, message |-> "File uploaded successfully",
                        reportId |-> r]]
    /\ text = << >>
    /\ docType = "unset"
    /\ ocr = << >>
    /\ storeCall = NoStoreCall
    /\ users = << >>
    /\ sharedReports = << >>
    /\ requests = << >>
    /\ replies = << >>

\* the steps of the two runs
PairNext ==
    \/ \E r \in DOMAIN runs : Extract(r)
    \/ \E r \in DOMAIN runs : Checkpoint(r)
    \/ \E r \in DOMAIN runs : AnalyzeMedical(r)
    \/ \E r \in DOMAIN runs : ExtractMedications(r)
    \/ \E r \in DOMAIN runs : MedicationsGetReport(r)
    \/ \E r \in DOMAIN runs : CreateMedication(r)
    \/ \E r \in DOMAIN runs : FinalWrite(r)
    \/ \E r \in DOMAIN runs : TimelineGetReport(r)
    \/ \E r \in DOMAIN runs : CreateTimelineEntry(r)
    \/ \E r \in DOMAIN runs : OuterCatch(r)

PairSpec == InitPair /\ [][PairNext]_vars

----------------------------------------------------------------------------
(* The earlier variant of routes.ts: the upload handler extracts and       *)
(* classifies the text before it creates the row, and processReportAsync   *)
(* takes the extracted text and the type.                                  *)

MsgTextExtractionFailed ==
    Str(<<"T","e","x","t"," ","e","x","t","r","a","c","t","i","o","n"," ","f","a","i","l","e","d">>)
MsgProcessingFailed ==
    Str(<<"P","r","o","c","e","s","s","i","n","g"," ","f","a","i","l","e","d">>)

\* what the extraction of the earlier upload handler leaves in extractedText:
\* the text the extractor returned, or the fixed message of its catch block
EarlyExtractedTexts ==
    { out.value : out \in { o \in UNION { ExtractionOutcomes(m) : m \in MimeTypes } : o.ok } }
        \cup { MsgTextExtractionFailed }

\* where processReportAsync(reportId, text, reportType) reaches its first await
EarlyDispatch(reportType) ==
    IF reportType \in {"blood_test", "general"} THEN "earlyAnalyze"
    ELSE IF reportType = "prescription" THEN "earlyExtractMedications"
    ELSE "earlyFinalWrite"

\* the update of the catch block of the earlier processReportAsync
EarlyFailureUpdate == [status |-> "failed", summary |-> MsgProcessingFailed]

\* the earlier upload handler, to its response: extraction, classification,
\* createReport, the start of the pipeline up to its first await, response
EarlyUpload(u, name) ==
    /\ Cardinality(DOMAIN reports) < MaxReports
    /\ \E extracted \in EarlyExtractedTexts :
        LET id == FreshReportId(reports)
            reportType == detectDocumentType(extracted.chars)
            ins == [ userId |-> u,
                     fileName |-> name,
                     fileUrl |-> <<"/uploads/", id, "_", name>>,
                     reportType |-> reportType,
                     originalText |-> extracted,
                     status |-> "processing" ]
        IN  /\ reports' = createReport(reports, ins)
            /\ runs' = [i \in DOMAIN runs \cup {id} |->
                           IF i = id
                           THEN [NewRun EXCEPT !.extractedText = extracted,
                                               !.reportType = reportType,
                                               !.pc = EarlyDispatch(reportType)]
                           ELSE runs[i]]
            /\ responses' = [i \in DOMAIN responses \cup {id} |->
                           IF i = id
                           THEN [code |-> 200, message |-> "File uploaded successfully",
                                 reportId |-> id]
                           ELSE responses[i]]
    /\ UNCHANGED <<medications, healthTimeline, text, docType, ocr, storeCall,
                 users, sharedReports, requests, replies>>

\* a call of the earlier pipeline threw: every throw goes to its one catch block
EarlyThrow(run, op, site, k) ==
    [run EXCEPT !.log = Append(@, Call(op, site, FALSE, k)), !.pc = "earlyCatch"]

\* await analyzeMedicalReport(text)
EarlyAnalyze(r) ==
    /\ runs[r].pc = "earlyAnalyze"
    /\ \/ \E s \in EngineSummaries :
            LET result == [type |-> "object", summary |-> s, riskLevel |-> "low"]
            IN  runs' = [runs EXCEPT ![r] =
                    [@ EXCEPT !.engineInput = runs[r].extractedText,
                              !.analysis = result,
                              !.summary = result.summary,
                              !.extractedData = result,
                              !.log = Append(@, Call("analyzeMedicalReport", "stage2", TRUE, 0)),
                              !.pc = "earlyFinalWrite"]]
       \/ runs' = [runs EXCEPT ![r] =
              EarlyThrow([@ EXCEPT !.engineInput = runs[r].extractedText],
                         "analyzeMedicalReport", "stage2", 0)]
    /\ UNCHANGED <<reports, medications, healthTimeline, responses, text, docType, ocr,
                 storeCall,
                 users, sharedReports, requests, replies>>

\* await extractMedicationInfo(text)
EarlyExtractMedications(r) ==
    /\ runs[r].pc = "earlyExtractMedications"
    /\ \/ \E meds \in EngineMedicationLists :
            runs' = [runs EXCEPT ![r] =
                [@ EXCEPT !.engineInput = runs[r].extractedText,
                          !.medicationList = meds,
                          !.extractedData = [type |-> "object", medications |-> meds],
                          !.summary = Concat(Concat(PrescriptionContains, Str(Digits(Len(meds)))),
                                             MedicationsSuffix),
                          !.log = Append(@, Call("extractMedicationInfo", "stage2", TRUE, 0)),
                          !.pc = "earlyMedicationsGetReport"]]
       \/ runs' = [runs EXCEPT ![r] =
              EarlyThrow([@ EXCEPT !.engineInput = runs[r].extractedText],
                         "extractMedicationInfo", "stage2", 0)]
    /\ UNCHANGED <<reports, medications, healthTimeline, responses, text, docType, ocr,
                 storeCall,
                 users, sharedReports, requests, replies>>

\* await storage.getReport(reportId) before the loop
EarlyMedicationsGetReport(r) ==
    /\ runs[r].pc = "earlyMedicationsGetReport"
    /\ \/ runs' = [runs EXCEPT ![r] =
              [@ EXCEPT !.log = Append(@, Call("getReport", "medications", TRUE, 0)),
                        !.medIndex = 1,
                        !.pc = IF getReport(reports, r) # Null /\ Len(runs[r].medicationList) >= 1
                               THEN "earlyCreateMedication" ELSE "earlyFinalWrite"]]
       \/ runs' = [runs EXCEPT ![r] = EarlyThrow(@, "getReport", "medications", 0)]
    /\ UNCHANGED <<reports, medications, healthTimeline, responses, text, docType, ocr,
                 storeCall,
                 users, sharedReports, requests, replies>>

\* one turn of the loop: await storage.createMedication, with no try/catch
\* of its own
EarlyCreateMedication(r) ==
    /\ runs[r].pc = "earlyCreateMedication"
    /\ LET k == runs[r].medIndex
           med == runs[r].medicationList[k]
       IN  \/ /\ medications' = createMedication(medications, MedicationInsert(reports[r], med))
              /\ runs' = [runs EXCEPT ![r] =
                    [@ EXCEPT !.log = Append(@, Call("createMedication", "loop", TRUE, k)),
                              !.medIndex = k + 1,
                              !.pc = IF k + 1 > Len(runs[r].medicationList)
                                     THEN "earlyFinalWrite" ELSE "earlyCreateMedication"]]
           \/ /\ medications' = medications
              /\ runs' = [runs EXCEPT ![r] = EarlyThrow(@, "createMedication", "loop", k)]
    /\ UNCHANGED <<reports, healthTimeline, responses, text, docType, ocr, storeCall,
                 users, sharedReports, requests, replies>>

\* the update of the write after the analysis
EarlyFinalUpdate(run) ==
    [ analysis |-> run.analysis,
      extractedData |-> run.extractedData,
      summary |-> run.summary,
      status |-> "completed" ]

\* await storage.updateReport(reportId, {analysis, extractedData, summary,
\* status: 'completed'})
EarlyFinalWrite(r) ==
    /\ runs[r].pc = "earlyFinalWrite"
    /\ \/ /\ reports' = updateReport(reports, r, EarlyFinalUpdate(runs[r]))
          /\ runs' = [runs EXCEPT ![r] =
                [@ EXCEPT !.log = Append(@, Call("updateReport", "final", TRUE, 0)),
                          !.pc = "earlyTimelineGetReport"]]
       \/ /\ reports' = reports
          /\ runs' = [runs EXCEPT ![r] = EarlyThrow(@, "updateReport", "final", 0)]
    /\ UNCHANGED <<medications, healthTimeline, responses, text, docType, ocr, storeCall,
                 users, sharedReports, requests, replies>>

\* the function has returned, or thrown out of its catch block: nothing
\* handles the promise of the earlier upload handler's call
EarlySettle(run, ok) ==
    [run EXCEPT !.promise = IF ok THEN "fulfilled" ELSE "rejected", !.pc = "done"]

\* await storage.getReport(reportId) before the timeline entry
EarlyTimelineGetReport(r) ==
    /\ runs[r].pc = "earlyTimelineGetReport"
    /\ \/ runs' = [runs EXCEPT ![r] =
              LET run == [@ EXCEPT !.log = Append(@, Call("getReport", "timeline", TRUE, 0))]
              IN  IF getReport(reports, r) # Null
                  THEN [run EXCEPT !.pc = "earlyCreateTimelineEntry"]
                  ELSE EarlySettle(run, TRUE)]
       \/ runs' = [runs EXCEPT ![r] = EarlyThrow(@, "getReport", "timeline", 0)]
    /\ UNCHANGED <<reports, medications, healthTimeline, responses, text, docType, ocr,
                 storeCall,
                 users, sharedReports, requests, replies>>

\* await storage.createHealthTimelineEntry, inside the one try block
EarlyCreateTimelineEntry(r) ==
    /\ runs[r].pc = "earlyCreateTimelineEntry"
    /\ \/ /\ healthTimeline' =
                createHealthTimelineEntry(healthTimeline, TimelineInsert(reports[r], runs[r]))
          /\ runs' = [runs EXCEPT ![r] =
                EarlySettle([@ EXCEPT !.log =
                    Append(@, Call("createHealthTimelineEntry", "timeline", TRUE, 0))], TRUE)]
       \/ /\ healthTimeline' = healthTimeline
          /\ runs' = [runs EXCEPT ![r] =
                EarlyThrow(@, "createHealthTimelineEntry", "timeline", 0)]
    /\ UNCHANGED <<reports, medications, responses, text, docType, ocr, storeCall,
                 users, sharedReports, requests, replies>>

\* the catch block: await storage.updateReport(reportId, {status: 'failed',
\* summary: 'Processing failed'})
EarlyCatch(r) ==
    /\ runs[r].pc = "earlyCatch"
    /\ \E ok \in BOOLEAN :
        /\ reports' = IF ok THEN updateReport(reports, r, EarlyFailureUpdate) ELSE reports
        /\ runs' = [runs EXCEPT ![r] =
              EarlySettle([@ EXCEPT !.log =
                  Append(@, Call("updateReport", "outerCatch", ok, 0))], ok)]
    /\ UNCHANGED <<medications, healthTimeline, responses, text, docType, ocr, storeCall,
                 users, sharedReports, requests, replies>>

EarlyNext ==
    \/ \E u \in Users, name \in FileNames : EarlyUpload(u, name)
    \/ \E r \in DOMAIN runs : EarlyAnalyze(r)
    \/ \E r \in DOMAIN runs : EarlyExtractMedications(r)
    \/ \E r \in DOMAIN runs : EarlyMedicationsGetReport(r)
    \/ \E r \in DOMAIN runs : EarlyCreateMedication(r)
    \/ \E r \in DOMAIN runs : EarlyFinalWrite(r)
    \/ \E r \in DOMAIN runs : EarlyTimelineGetReport(r)
    \/ \E r \in DOMAIN runs : EarlyCreateTimelineEntry(r)
    \/ \E r \in DOMAIN runs : EarlyCatch(r)

EarlySpec == Init /\ [][EarlyNext]_vars

----------------------------------------------------------------------------
(* routes.ts: GET /api/reports/:id and the sharing routes, over the store  *)
(* of two uploads by two users                                             *)

MaxShares == 2      \* shares created per behaviour
MaxReplies == 3     \* responses of the report and sharing routes per behaviour

\* req.session.userId of a request: a signed-in user, or none
NoSession == "none"
Sessions == { PairOwners[i] : i \in DOMAIN PairOwners } \cup { NoSession }

\* req.body.reportIds: ids of stored reports, and one id no report has
RequestedReportIds == { <<1>>, <<2>>, <<1, 2>>, <<3>> }

\* req.body.expiresInDays, and the days gone by when a share is viewed
ExpiresInDays == { 7 }
ElapsedDays == { 0, 8 }

\* a response of the report and sharing routes: the rows it carries and, for
\* the sharing routes, the id of the share
Reply(route, session, code, rows, share) ==
    [route |-> route, session |-> session, code |-> code, reports |-> rows, share |-> share]

\* the requests answered and under way
Arrived == Len(replies) + Len(requests)

\* a JavaScript number
Num(n) == [type |-> "number", value |-> n]

\* JavaScript's v + 1 for a number or null: null counts as 0
PlusOne(v) == IF v.type = "null" THEN Num(1) ELSE Num(v.value + 1)

\* v || null for a number: 0 is falsy
NumberOrNull(v) == IF v.value = 0 THEN Null ELSE v

\* the row createSharedReport builds from an InsertSharedReport
NewSharedReport(id, ins) ==
    [ id |-> id,
      userId |-> ins.userId,
      reportIds |-> ins.reportIds,
      shareToken |-> ins.shareToken,
      expiresAt |-> ins.expiresAt,
      isActive |-> ins.isActive,
      viewCount |-> NumberOrNull(ins.viewCount) ]

createSharedReport(ss, ins) == Append(ss, NewSharedReport(Len(ss) + 1, ins))

\* getSharedReport: the first share with the token, or undefined
getSharedReport(ss, token) ==
    IF \E i \in DOMAIN ss : ss[i].shareToken = token
    THEN ss[CHOOSE i \in DOMAIN ss :
                /\ ss[i].shareToken = token
                /\ \A j \in DOMAIN ss : ss[j].shareToken = token => i <= j]
    ELSE Undefined

updateSharedReport(ss, id, updates) ==
    IF id \notin DOMAIN ss THEN ss ELSE [ss EXCEPT ![id] = Merge(@, updates)]

\* GET /api/reports/:id
GetReportById(session, id) ==
    /\ Arrived < MaxReplies
    /\ LET report == getReport(reports, id)
           route == "GET /api/reports/:id"
       IN  replies' = Append(replies,
              IF session = NoSession THEN Reply(route, session, 401, << >>, 0)
              ELSE IF report = Null \/ report.userId # session
                   THEN Reply(route, session, 404, << >>, 0)
                   ELSE Reply(route, session, 200, <<report>>, 0))
    /\ UNCHANGED <<reports, medications, healthTimeline, runs, responses, text, docType, ocr,
                 storeCall, users, sharedReports, requests>>

\* POST /api/share/create: the token is a fresh random UUID
ShareCreate(session, reportIds, days) ==
    /\ Arrived < MaxReplies
    /\ LET route == "POST /api/share/create"
           shareToken == Len(sharedReports) + 1
       IN  IF session = NoSession
           THEN /\ replies' = Append(replies, Reply(route, session, 401, << >>, 0))
                /\ UNCHANGED sharedReports
           ELSE /\ Len(sharedReports) < MaxShares
                /\ sharedReports' = createSharedReport(sharedReports,
                      [ userId |-> session,
                        reportIds |-> reportIds,
                        shareToken |-> shareToken,
                        expiresAt |-> days,
                        isActive |-> TRUE,
                        viewCount |-> Num(0) ])
                /\ replies' = Append(replies, Reply(route, session, 200, << >>, shareToken))
    /\ UNCHANGED <<reports, medications, healthTimeline, runs, responses, text, docType, ocr,
                 storeCall, users, requests>>

\* GET /api/share/:token, to its second await: getSharedReport and the check
\* of isActive and expiresAt
ShareViewBegin(token, elapsed) ==
    /\ Arrived < MaxReplies
    /\ LET route == "GET /api/share/:token"
           sharedReport == getSharedReport(sharedReports, token)
       IN  IF sharedReport = Undefined
           THEN /\ replies' = Append(replies, Reply(route, NoSession, 404, << >>, 0))
                /\ UNCHANGED requests
           ELSE IF ~sharedReport.isActive \/ elapsed > sharedReport.expiresAt
           THEN /\ replies' = Append(replies, Reply(route, NoSession, 404, << >>, 0))
                /\ UNCHANGED requests
           ELSE /\ requests' = Append(requests, [route |-> route, sharedReport |-> sharedReport])
                /\ UNCHANGED replies
    /\ UNCHANGED <<reports, medications, healthTimeline, runs, responses, text, docType, ocr,
                 storeCall, users, sharedReports>>

\* the reports of the loop over sharedReport.reportIds: the rows getReport finds
RECURSIVE SharedRows(_, _)
SharedRows(rs, ids) ==
    IF ids = << >> THEN << >>
    ELSE LET report == getReport(rs, Head(ids))
         IN  (IF report # Null THEN <<report>> ELSE << >>) \o SharedRows(rs, Tail(ids))

\* the sequence without its i-th element
Without(seq, i) == [j \in 1..(Len(seq) - 1) |-> IF j < i THEN seq[j] ELSE seq[j + 1]]

\* GET /api/share/:token, from the view-count update to the response; the
\* health summary engine returns (ok) or throws
ShareViewFinish(i) ==
    /\ i \in DOMAIN requests
    /\ requests[i].route = "GET /api/share/:token"
    /\ LET route == requests[i].route
           sharedReport == requests[i].sharedReport
       IN  /\ sharedReports' = updateSharedReport(sharedReports, sharedReport.id,
                                  [viewCount |-> PlusOne(sharedReport.viewCount)])
           /\ \E ok \in BOOLEAN :
                replies' = Append(replies,
                   IF ok
                   THEN Reply(route, NoSession, 200,
                              SharedRows(reports, sharedReport.reportIds), sharedReport.id)
                   ELSE Reply(route, NoSession, 500, << >>, sharedReport.id))
    /\ requests' = Without(requests, i)
    /\ UNCHANGED <<reports, medications, healthTimeline, runs, responses, text, docType, ocr,
                 storeCall, users>>

ShareNext ==
    \/ \E session \in Sessions, id \in 1..3 : GetReportById(session, id)
    \/ \E session \in Sessions, ids \in RequestedReportIds, days \in ExpiresInDays :
          ShareCreate(session, ids, days)
    \/ \E token \in 1..(MaxShares + 1), elapsed \in ElapsedDays : ShareViewBegin(token, elapsed)
    \/ \E i \in DOMAIN requests : ShareViewFinish(i)

ShareSpec == InitPair /\ [][ShareNext]_vars

----------------------------------------------------------------------------
(* routes.ts: POST /api/auth/register over MemStorage.users.  The handler  *)
(* runs to its await of bcrypt.hash in one piece (getUserByEmail reads the *)
(* map when it is called), and from the hash to its response in another    *)
(* (createUser sets the map when it is called).                            *)

MaxRegistrations == 3   \* register requests per behaviour

\* req.body.email and req.body.password
Emails == { "ann@example.org", "bob@example.org" }
Passwords == { "secret" }

\* bcrypt.hash(password, 10)
Hashed(password) == <<"$2b$10$", password>>

\* the row createUser builds from an InsertUser
NewUser(id, ins) ==
    [ id |-> id,
      email |-> ins.email,
      password |-> ins.password,
      role |-> "patient" ]

createUser(us, ins) == Append(us, NewUser(Len(us) + 1, ins))

\* getUserByEmail: the first user with the email, or undefined
getUserByEmail(us, email) ==
    IF \E i \in DOMAIN us : us[i].email = email
    THEN us[CHOOSE i \in DOMAIN us :
                /\ us[i].email = email
                /\ \A j \in DOMAIN us : us[j].email = email => i <= j]
    ELSE Undefined

\* a response of POST /api/auth/register
RegisterReply(code, message, email, userId) ==
    [ route |-> "POST /api/auth/register", code |-> code, message |-> message,
      email |-> email, userId |-> userId ]

\* the register requests answered and under way
Registrations == Len(replies) + Len(requests)

\* POST /api/auth/register to its await of bcrypt.hash: the lookup of the
\* email and the answer to a request whose email is taken
RegisterBegin(email, password) ==
    /\ Registrations < MaxRegistrations
    /\ IF getUserByEmail(users, email) # Undefined
       THEN /\ replies' = Append(replies, RegisterReply(400, "User already exists", email, 0))
            /\ UNCHANGED requests
       ELSE /\ requests' = Append(requests,
                  [ route |-> "POST /api/auth/register", email |-> email,
                    password |-> password ])
            /\ UNCHANGED replies
    /\ UNCHANGED <<reports, medications, healthTimeline, runs, responses, text, docType, ocr,
                 storeCall, users, sharedReports>>

\* POST /api/auth/register from the hash to its response: bcrypt.hash
\* resolves (ok) and the user is created, or it rejects and the catch block
\* answers
RegisterHashed(i) ==
    /\ i \in DOMAIN requests
    /\ requests[i].route = "POST /api/auth/register"
    /\ \E ok \in BOOLEAN :
        IF ok
        THEN /\ users' = createUser(users, [ email |-> requests[i].email,
                                             password |-> Hashed(requests[i].password) ])
             /\ replies' = Append(replies,
                   RegisterReply(200, "User created successfully", requests[i].email,
                                 Len(users) + 1))
        ELSE /\ users' = users
             /\ replies' = Append(replies,
                   RegisterReply(400, "Operation failed", requests[i].email, 0))
    /\ requests' = Without(requests, i)
    /\ UNCHANGED <<reports, medications, healthTimeline, runs, responses, text, docType, ocr,
                 storeCall, sharedReports>>

RegisterNext ==
    \/ \E email \in Emails, password \in Passwords : RegisterBegin(email, password)
    \/ \E i \in DOMAIN requests : RegisterHashed(i)

RegisterSpec == Init /\ [][RegisterNext]_vars

----------------------------------------------------------------------------
(* Vocabulary of the properties *)

Log(r) == runs[r].log

\* the run of r made the call op at site and it returned (ok) or threw (~ok)
Called(r, op, site, ok) ==
    \E i \in 1..Len(Log(r)) :
        Log(r)[i].op = op /\ Log(r)[i].site = site /\ Log(r)[i].ok = ok

\* positions in the log of the updateReport calls that carry a status and
\* took effect
StatusWrites(r) ==
    { i \in 1..Len(Log(r)) :
        /\ Log(r)[i].op = "updateReport"
        /\ Log(r)[i].site \in {"final", "outerCatch", "fallback"}
        /\ Log(r)[i].ok }

\* positions in the log of every updateReport call issued, returned or thrown
UpdateCalls(r) == { i \in 1..Len(Log(r)) : Log(r)[i].op = "updateReport" }

\* an analysis-engine call of the run threw
EngineThrew(r) ==
    \/ Called(r, "analyzeMedicalReport", "stage2", FALSE)
    \/ Called(r, "extractMedicationInfo", "stage2", FALSE)

Done(r) == runs[r].pc = "done"

TimelineEntriesOf(r) ==
    { i \in 1..Len(healthTimeline) : healthTimeline[i].reportId = r }

AnalysisPlaceholder == [type |-> "object", message |-> MsgAnalysisUnavailable]

----------------------------------------------------------------------------
(* C1 *)

\* C1 as stated, in the form a finished run refutes: whatever the outcomes of
\* the extractor, the engine and the store calls, a run that has ended has
\* left its report completed or failed, never processing.
C1_NeverLeftProcessing ==
    \A r \in DOMAIN runs : Done(r) => reports[r].status \in Terminal

\* C1 (amended): every run on a report created as processing eventually
\* brings the stored status to completed or failed, unless a pipeline write
\* (checkpoint or final) threw and the failure update of the outer catch
\* block threw as well; only then is the report left processing.
C1_EventuallyTerminalUnlessStoreDown ==
    \A r \in 1..MaxReports :
        [](r \in DOMAIN runs =>
            <>(/\ r \in DOMAIN runs
               /\ \/ reports[r].status \in Terminal
                  \/ Called(r, "updateReport", "outerCatch", FALSE)))

C1_Witness ==
    \E r \in DOMAIN runs :
        /\ Done(r)
        /\ Called(r, "updateReport", "checkpoint", FALSE)
        /\ Called(r, "updateReport", "outerCatch", TRUE)
        /\ reports[r].status = "failed"

----------------------------------------------------------------------------
(* C2 *)

\* C2: once a status write of completed or failed has taken effect for a
\* report, no later step changes the stored status, and at most one status
\* write takes effect per run.
C2_StatusMonotonic ==
    [][\A r \in DOMAIN reports :
          /\ reports[r].status \in Terminal => reports'[r].status = reports[r].status
          /\ Cardinality({ i \in 1..Len(runs'[r].log) :
                 /\ runs'[r].log[i].op = "updateReport"
                 /\ runs'[r].log[i].site \in {"final", "outerCatch", "fallback"}
                 /\ runs'[r].log[i].ok }) <= 1]_vars

C2_Witness ==
    \E r \in DOMAIN runs :
        /\ Done(r)
        /\ reports[r].status = "completed"
        /\ Called(r, "createHealthTimelineEntry", "timeline", FALSE)
        /\ Cardinality(StatusWrites(r)) = 1

----------------------------------------------------------------------------
(* C3 *)

\* C3 as stated: in every terminal state the status is failed exactly when
\* text extraction threw, and completed otherwise, store failures included.
C3_FailedIffExtractionThrew ==
    \A r \in DOMAIN runs :
        reports[r].status \in Terminal =>
            (reports[r].status = "failed" <=> runs[r].extractionFailed)

\* C3 (amended): in every terminal state the status is failed exactly when
\* text extraction threw or the outer catch block marked the report failed
\* after the checkpoint or final write threw; it is completed exactly when
\* extraction succeeded and the final write returned, whatever the analysis
\* engine and the medication and timeline calls did.
C3_FailedIffExtractionOrWriteThrew ==
    \A r \in DOMAIN runs :
        reports[r].status \in Terminal =>
            /\ reports[r].status = "failed" <=>
                  \/ runs[r].extractionFailed
                  \/ Called(r, "updateReport", "outerCatch", TRUE)
            /\ reports[r].status = "completed" <=>
                  /\ ~runs[r].extractionFailed
                  /\ Called(r, "updateReport", "final", TRUE)

C3_Witness ==
    \E r \in DOMAIN runs :
        /\ Done(r)
        /\ reports[r].status = "completed"
        /\ EngineThrew(r)
        /\ Called(r, "getReport", "timeline", FALSE)

----------------------------------------------------------------------------
(* C4 *)

\* C4 as stated: when extraction threw, the run ends with status failed and
\* the summary equal to the extraction error message, which is also the
\* stored originalText; if the final write threw, the summary is the generic
\* technical-failure message instead.
C4_ExtractionFailureSummary ==
    \A r \in DOMAIN runs :
        (Done(r) /\ runs[r].extractionFailed) =>
            /\ reports[r].status = "failed"
            /\ IF Called(r, "updateReport", "final", FALSE)
               THEN reports[r].summary = MsgTechnicalFailure
               ELSE /\ reports[r].summary = runs[r].extractedText
                    /\ reports[r].originalText = runs[r].extractedText

\* C4 (amended): when extraction threw and the checkpoint and final writes
\* returned, the run ends with status failed and the summary equal to the
\* extraction error message, which is also the stored originalText; when the
\* checkpoint write or the final write threw and the failure update
\* returned, the status is failed and the summary is the generic
\* technical-failure message; when the failure update threw too, the report
\* keeps status processing and a null summary.
C4_ExtractionFailureSummaryByWrites ==
    \A r \in DOMAIN runs :
        (Done(r) /\ runs[r].extractionFailed) =>
            IF Called(r, "updateReport", "final", TRUE)
            THEN /\ reports[r].status = "failed"
                 /\ reports[r].summary = runs[r].extractedText
                 /\ reports[r].originalText = runs[r].extractedText
                 /\ Called(r, "updateReport", "checkpoint", TRUE)
            ELSE IF Called(r, "updateReport", "outerCatch", TRUE)
            THEN /\ reports[r].status = "failed"
                 /\ reports[r].summary = MsgTechnicalFailure
            ELSE /\ reports[r].status = "processing"
                 /\ reports[r].summary = Null

C4_Witness ==
    \E r \in DOMAIN runs :
        /\ Done(r)
        /\ runs[r].extractionFailed
        /\ reports[r].status = "failed"
        /\ reports[r].summary = Concat(PrefixOcr, MsgOcrTimeout)
        /\ reports[r].originalText = reports[r].summary

----------------------------------------------------------------------------
(* C5 *)

\* C5: the promise of processReportAsync never rejects, whatever fails, the
\* failure update of the outer catch block included; the upload handler's
\* .catch fallback write is never executed.
C5_NeverRejects ==
    \A r \in DOMAIN runs :
        /\ runs[r].promise # "rejected"
        /\ ~Called(r, "updateReport", "fallback", TRUE)
        /\ ~Called(r, "updateReport", "fallback", FALSE)
        /\ Done(r) => runs[r].promise = "fulfilled"

C5_Witness ==
    \E r \in DOMAIN runs :
        /\ Done(r)
        /\ runs[r].promise = "fulfilled"
        /\ Called(r, "updateReport", "final", FALSE)
        /\ Called(r, "updateReport", "outerCatch", FALSE)

----------------------------------------------------------------------------
(* C6 *)

\* C6 as stated: when the analysis engine call threw, the run ends with
\* status completed, the fixed fallback summary and the placeholder
\* extractedData.
C6_EngineFailureAbsorbed ==
    \A r \in DOMAIN runs :
        (Done(r) /\ EngineThrew(r)) =>
            /\ reports[r].status = "completed"
            /\ reports[r].summary = MsgAnalysisFallbackSummary
            /\ reports[r].extractedData = AnalysisPlaceholder

\* C6 (amended): when the analysis engine call threw and the final write
\* returned, extractedData is the placeholder object and analysis is null;
\* if extraction had succeeded, the status is completed and the summary is
\* the fixed fallback text; if extraction had thrown, the status is failed
\* and the summary is the extraction error message.
C6_EngineFailureAbsorbedAfterExtraction ==
    \A r \in DOMAIN runs :
        (Done(r) /\ EngineThrew(r) /\ Called(r, "updateReport", "final", TRUE)) =>
            /\ reports[r].extractedData = AnalysisPlaceholder
            /\ reports[r].analysis = Null
            /\ IF runs[r].extractionFailed
               THEN /\ reports[r].status = "failed"
                    /\ reports[r].summary = runs[r].extractedText
               ELSE /\ reports[r].status = "completed"
                    /\ reports[r].summary = MsgAnalysisFallbackSummary

C6_Witness ==
    \E r \in DOMAIN runs :
        /\ Done(r)
        /\ Called(r, "extractMedicationInfo", "stage2", FALSE)
        /\ reports[r].status = "completed"
        /\ reports[r].summary = MsgAnalysisFallbackSummary
        /\ reports[r].extractedData = AnalysisPlaceholder

----------------------------------------------------------------------------
(* C7 *)

\* the createMedication calls of the run, in the order they were made
MedicationAttempts(r) == SelectSeq(Log(r), LAMBDA e : e.op = "createMedication")

\* the loop indexes of those calls
AttemptedIndexes(r) ==
    [i \in 1..Len(MedicationAttempts(r)) |-> MedicationAttempts(r)[i].k]

\* the indexes of the calls that returned
CreatedIndexes(r) ==
    LET created == SelectSeq(MedicationAttempts(r), LAMBDA e : e.ok)
    IN  [i \in 1..Len(created) |-> created[i].k]

\* the medication engine returned its list and the run is past the loop
PastMedicationLoop(r) ==
    /\ Called(r, "extractMedicationInfo", "stage2", TRUE)
    /\ runs[r].pc \notin {"medicationsGetReport", "createMedication"}

\* the names of the Medication rows stored for report r, in insertion order
StoredMedicationNames(r) ==
    LET rows == SelectSeq(medications, LAMBDA m : m.reportId = r)
    IN  [i \in 1..Len(rows) |-> rows[i].name]

\* C7 as stated: when the medication engine returned N entries,
\* createMedication is attempted once for each entry, in order, whichever
\* attempts fail, and the report ends completed.
C7_EveryMedicationAttempted ==
    \A r \in DOMAIN runs :
        PastMedicationLoop(r) =>
            /\ AttemptedIndexes(r) = [i \in 1..Len(runs[r].medicationList) |-> i]
            /\ Done(r) => reports[r].status = "completed"

\* C7 (amended): when the medication engine returned N entries and the
\* getReport call before the loop returned the row, createMedication is
\* attempted once for each entry, in order, whichever attempts fail; exactly
\* the entries whose attempt returned are stored; and the report ends
\* completed whenever the final write returns.  When that getReport call
\* throws, no createMedication is attempted.
C7_EveryMedicationAttemptedAfterRead ==
    \A r \in DOMAIN runs :
        PastMedicationLoop(r) =>
            /\ Called(r, "getReport", "medications", TRUE) =>
                  /\ AttemptedIndexes(r) = [i \in 1..Len(runs[r].medicationList) |-> i]
                  /\ StoredMedicationNames(r) =
                        [i \in 1..Len(CreatedIndexes(r)) |->
                            runs[r].medicationList[CreatedIndexes(r)[i]].name]
            /\ Called(r, "getReport", "medications", FALSE) =>
                  MedicationAttempts(r) = << >>
            /\ (Done(r) /\ Called(r, "updateReport", "final", TRUE)) =>
                  reports[r].status = "completed"

C7_Witness ==
    \E r \in DOMAIN runs :
        /\ Done(r)
        /\ Len(runs[r].medicationList) = 2
        /\ AttemptedIndexes(r) = <<1, 2>>
        /\ CreatedIndexes(r) = <<2>>
        /\ reports[r].status = "completed"

----------------------------------------------------------------------------
(* C8 *)

\* C8: a run creates at most one timeline entry for its report, and only
\* after the final write with status completed has returned; a run whose
\* extraction failed or whose final write threw creates none; an entry for a
\* report exists only if the stored status of the report is completed.
C8_TimelineOnlyWhenCompleted ==
    \A r \in DOMAIN runs :
        /\ Cardinality(TimelineEntriesOf(r)) <= 1
        /\ TimelineEntriesOf(r) # {} =>
              /\ reports[r].status = "completed"
              /\ Called(r, "updateReport", "final", TRUE)
        /\ (runs[r].extractionFailed \/ Called(r, "updateReport", "final", FALSE)) =>
              TimelineEntriesOf(r) = {}

C8_Witness ==
    \E r \in DOMAIN runs :
        /\ Done(r)
        /\ Cardinality(TimelineEntriesOf(r)) = 1
        /\ reports[r].status = "completed"
        /\ healthTimeline[Len(healthTimeline)].eventType = "lab_result"

----------------------------------------------------------------------------
(* C9 *)

\* a call of the timeline block threw
TimelineThrew(r) ==
    \/ Called(r, "getReport", "timeline", FALSE)
    \/ Called(r, "createHealthTimelineEntry", "timeline", FALSE)

\* C9: when getReport or createHealthTimelineEntry of the timeline block
\* throws after the final write, the persisted fields of the report stay as
\* the final write stored them (status completed, the run's summary, analysis
\* and extractedData), and the final write is the last updateReport issued.
C9_TimelineFailureLeavesReport ==
    \A r \in DOMAIN runs :
        TimelineThrew(r) =>
            /\ reports[r].status = "completed"
            /\ reports[r].summary = runs[r].summary
            /\ reports[r].analysis = runs[r].analysis
            /\ reports[r].extractedData = runs[r].extractedData
            /\ \A i \in UpdateCalls(r) : Log(r)[i].site \in {"checkpoint", "final"}
            /\ Cardinality(UpdateCalls(r)) = 2

C9_Witness ==
    \E r \in DOMAIN runs :
        /\ Done(r)
        /\ Called(r, "getReport", "timeline", FALSE)
        /\ runs[r].reportType = "prescription"
        /\ reports[r].status = "completed"

----------------------------------------------------------------------------
(* C10 *)

\* two characters are the same letter, whatever their case
SameLetter(a, b) ==
    \/ a = b
    \/ \E i \in 1..Len(Upper) : {a, b} = {Upper[i], Lower[i]}

\* the keyword occurs in the text at some position, ignoring case
Occurs(kw, cs) ==
    \E i \in 1..Len(cs) :
        /\ i + Len(kw) - 1 <= Len(cs)
        /\ \A j \in 1..Len(kw) : SameLetter(cs[i + j - 1], kw[j])

AnyOccurs(kws, cs) == \E k \in 1..Len(kws) : Occurs(kws[k], cs)

\* C10: detectDocumentType returns prescription if a prescription keyword
\* occurs in the text in any case; else blood_test if a blood-test keyword
\* occurs; else x-ray if an imaging keyword occurs; else general.
C10_ClassifierPrecedence ==
    docType # "unset" =>
        /\ docType = "prescription" <=> AnyOccurs(PrescriptionKeywords, text)
        /\ docType = "blood_test" <=>
              /\ ~AnyOccurs(PrescriptionKeywords, text)
              /\ AnyOccurs(BloodTestKeywords, text)
        /\ docType = "x-ray" <=>
              /\ ~AnyOccurs(PrescriptionKeywords, text)
              /\ ~AnyOccurs(BloodTestKeywords, text)
              /\ AnyOccurs(ImagingKeywords, text)
        /\ docType = "general" <=>
              /\ ~AnyOccurs(PrescriptionKeywords, text)
              /\ ~AnyOccurs(BloodTestKeywords, text)
              /\ ~AnyOccurs(ImagingKeywords, text)

C10_Witness ==
    /\ docType = "prescription"
    /\ Occurs(<<"b","l","o","o","d">>, text)
    /\ Occurs(<<"d","o","s","a","g","e">>, text)
    /\ ~Includes(text, <<"b","l","o","o","d">>)
    /\ ~Includes(text, <<"d","o","s","a","g","e">>)

----------------------------------------------------------------------------
(* C11 *)

\* the extractTextFromImage calls that have returned or thrown
OcrSettled(r) == r \in DOMAIN ocr /\ ocr[r].pc = "done"

\* C11: in every call of extractTextFromImage in which a worker was created,
\* worker.terminate is never invoked twice, and it has been invoked exactly
\* once when the call returns or throws, whether terminate returned or threw.
C11_TerminateExactlyOnce ==
    \A r \in DOMAIN ocr :
        /\ Len(ocr[r].terminate) <= 1
        /\ (OcrSettled(r) /\ ocr[r].worker) => Len(ocr[r].terminate) = 1

----------------------------------------------------------------------------
(* C12 *)

\* the timer of the recognition race of report r has fired
TimedOut(r) == r \in DOMAIN ocr /\ ocr[r].timeoutId = "fired"

\* Stage 1 of report r has recorded the timeout as its extraction failure
RecordedTimeout(r) ==
    /\ r \in DOMAIN runs
    /\ runs[r].extractionFailed
    /\ runs[r].extractedText = Concat(PrefixOcr, MsgOcrTimeout)

\* C12: when the timer of the recognition race fires, the orchestrator
\* eventually records the timeout as the extraction failure and the report
\* reaches failed (unless a pipeline write throws); and whatever the OCR call
\* is waiting for (worker creation, parameter setup, recognition, teardown),
\* the orchestrator eventually leaves Stage 1.
C12_OcrNeverBlocksOrchestrator ==
    \A r \in 1..MaxReports :
        /\ [](TimedOut(r) =>
                <>(/\ RecordedTimeout(r)
                   /\ \/ reports[r].status = "failed"
                      \/ \E i \in 1..Len(Log(r)) :
                            Log(r)[i].op = "updateReport" /\ ~Log(r)[i].ok))
        /\ [](r \in DOMAIN ocr => <>(r \in DOMAIN runs /\ runs[r].pc # "extract"))

----------------------------------------------------------------------------
(* C13 *)

\* what the extractors return for an image without recognisable text and
\* for a PDF without a text layer
NoTextResults == { OcrResultText(<<>>), PdfResultText(<<>>) }

\* the extraction call of r returned, and what it returned stands for no text
ExtractedNoText(r) ==
    /\ Called(r, "extract", "stage1", TRUE)
    /\ runs[r].extractedText \in NoTextResults

\* C13 as stated: when extraction succeeds but yields no text, the run is not
\* an extraction failure, reportType is general, the analysis dispatch for
\* general is entered and the final status is completed.
C13_NoTextCompletes ==
    \A r \in DOMAIN runs :
        (Done(r) /\ ExtractedNoText(r)) =>
            /\ ~runs[r].extractionFailed
            /\ runs[r].reportType = "general"
            /\ \E ok \in BOOLEAN : Called(r, "analyzeMedicalReport", "stage2", ok)
            /\ reports[r].status = "completed"

\* C13 (amended): when extraction succeeds but yields no text, the run is
\* not an extraction failure and reportType is general; when the checkpoint
\* write returns, the analysis dispatch for general is entered; and when the
\* final write returns too, the final status is completed.
C13_NoTextCompletesWhenWritesReturn ==
    \A r \in DOMAIN runs :
        (Done(r) /\ ExtractedNoText(r)) =>
            /\ ~runs[r].extractionFailed
            /\ runs[r].reportType = "general"
            /\ Called(r, "updateReport", "checkpoint", TRUE) =>
                  /\ \E ok \in BOOLEAN : Called(r, "analyzeMedicalReport", "stage2", ok)
                  /\ reports[r].reportType = "general"
                  /\ Called(r, "updateReport", "final", TRUE) =>
                        reports[r].status = "completed"

C13_Witness ==
    \E r \in DOMAIN runs :
        /\ Done(r)
        /\ runs[r].extractedText = PdfResultText(<<>>)
        /\ Called(r, "analyzeMedicalReport", "stage2", TRUE)
        /\ reports[r].reportType = "general"
        /\ reports[r].status = "completed"

----------------------------------------------------------------------------
(* C14 *)

\* positions in the log of the calls of the medical-analysis engine
MedicalAnalysisCalls(r) ==
    { i \in 1..Len(Log(r)) : Log(r)[i].op = "analyzeMedicalReport" }

\* extraction returned and the text classified as blood_test or general
ExtractedForMedicalAnalysis(r) ==
    /\ Called(r, "extract", "stage1", TRUE)
    /\ runs[r].reportType \in {"blood_test", "general"}

\* the stored report carries the result the engine returned to the run of r
StoredEngineResult(r) ==
    /\ reports[r].status = "completed"
    /\ reports[r].summary = runs[r].analysis.summary
    /\ reports[r].analysis = runs[r].analysis
    /\ reports[r].extractedData = runs[r].analysis

\* C14 as stated: a run whose extraction returned a text classified as
\* blood_test or general calls the medical-analysis engine exactly once, on
\* the full extracted text; when the engine returned, the final report has
\* status completed, the engine's summary, which is not empty, and the full
\* engine result as analysis and as extractedData.
C14_MedicalAnalysisStored ==
    \A r \in DOMAIN runs :
        (Done(r) /\ ExtractedForMedicalAnalysis(r)) =>
            /\ Cardinality(MedicalAnalysisCalls(r)) = 1
            /\ runs[r].engineInput = runs[r].extractedText
            /\ Called(r, "analyzeMedicalReport", "stage2", TRUE) =>
                  /\ StoredEngineResult(r)
                  /\ Truthy(reports[r].summary)

\* C14 (amended): a run whose extraction returned a text classified as
\* blood_test or general and whose checkpoint write returned calls the
\* medical-analysis engine exactly once, on the full extracted text (the
\* text the checkpoint stored); when the checkpoint write threw it does not
\* call the engine.  When the engine returned and the final write returned,
\* the final report has status completed, the summary of the engine result
\* (empty when the engine's summary is empty), and the full engine result as
\* analysis and as extractedData.
C14_MedicalAnalysisStoredWhenWritesReturn ==
    \A r \in DOMAIN runs :
        (Done(r) /\ ExtractedForMedicalAnalysis(r)) =>
            /\ Cardinality(MedicalAnalysisCalls(r)) =
                  IF Called(r, "updateReport", "checkpoint", TRUE) THEN 1 ELSE 0
            /\ Called(r, "updateReport", "checkpoint", TRUE) =>
                  /\ runs[r].engineInput = runs[r].extractedText
                  /\ runs[r].engineInput = reports[r].originalText
            /\ (/\ Called(r, "analyzeMedicalReport", "stage2", TRUE)
                /\ Called(r, "updateReport", "final", TRUE)) =>
                  /\ StoredEngineResult(r)
                  /\ runs[r].analysis.summary \in EngineSummaries
                  /\ Truthy(reports[r].summary) <=> Truthy(runs[r].analysis.summary)

C14_Witness ==
    \E r \in DOMAIN runs :
        /\ Done(r)
        /\ runs[r].reportType = "blood_test"
        /\ Cardinality(MedicalAnalysisCalls(r)) = 1
        /\ Called(r, "analyzeMedicalReport", "stage2", TRUE)
        /\ runs[r].engineInput = Str(<<"G","L","U","C","O","S","E">>)
        /\ StoredEngineResult(r)
        /\ Truthy(reports[r].summary)

----------------------------------------------------------------------------
(* C15 *)

\* C15: a call of updateReport on an id that is not in the store returns
\* undefined and leaves the store as it was, creating no row; on an id that
\* is in the store it sets the fields of the update and updatedAt, leaves the
\* other fields of that row and every other row as they were, and returns the
\* new row.
C15_UpdateReportFrame ==
    [][ storeCall'.op = "updateReport" =>
          LET id == storeCall'.id
              updates == storeCall'.updates
          IN  IF id \notin DOMAIN reports
              THEN /\ reports' = reports
                   /\ storeCall'.returned = Undefined
              ELSE /\ DOMAIN reports' = DOMAIN reports
                   /\ \A i \in DOMAIN reports \ {id} : reports'[i] = reports[i]
                   /\ DOMAIN reports'[id] =
                         DOMAIN reports[id] \cup DOMAIN updates \cup {"updatedAt"}
                   /\ \A f \in DOMAIN updates \ {"updatedAt"} :
                         reports'[id][f] = updates[f]
                   /\ reports'[id].updatedAt = storeCall'.now
                   /\ \A f \in DOMAIN reports[id] \ (DOMAIN updates \cup {"updatedAt"}) :
                         reports'[id][f] = reports[id][f]
                   /\ storeCall'.returned = reports'[id]
      ]_vars

\* updateReport was called on an absent id and returned undefined, in a store
\* where an earlier update of an existing row took effect and another row
\* kept the values createReport gave it
C15_Witness ==
    /\ storeCall.op = "updateReport"
    /\ storeCall.id \notin DOMAIN reports
    /\ storeCall.returned = Undefined
    /\ \E i \in DOMAIN reports :
        /\ reports[i].status = "failed"
        /\ reports[i].summary = MsgTechnicalFailure
        /\ reports[i].reportType = "general"
        /\ reports[i].updatedAt > reports[i].createdAt

----------------------------------------------------------------------------
(* C16 *)

\* the success response of the upload handler for report r
UploadResponse(r) ==
    [code |-> 200, message |-> "File uploaded successfully", reportId |-> r]

\* the run of r has issued no store write yet
NoStoreWriteYet(r) ==
    \A i \in 1..Len(Log(r)) :
        Log(r)[i].op \notin {"updateReport", "createMedication", "createHealthTimelineEntry"}

\* C16: whenever a pipeline run exists, at whatever point of its course,
\* finished or not, failed or not, the success response carrying its report
\* id has been sent; the row exists, with status processing as long as the
\* run has issued no store write; and no step changes a response once sent.
C16_ResponseIndependentOfPipeline ==
    /\ [](\A r \in DOMAIN runs :
            /\ r \in DOMAIN responses
            /\ responses[r] = UploadResponse(r)
            /\ r \in DOMAIN reports
            /\ NoStoreWriteYet(r) => reports[r].status = "processing")
    /\ [][\A r \in DOMAIN responses :
            r \in DOMAIN responses' /\ responses'[r] = responses[r]]_vars

\* the pipeline failed entirely (its write and the failure update threw) and
\* the response of the upload is the success response
C16_Witness ==
    \E r \in DOMAIN runs :
        /\ Done(r)
        /\ Called(r, "updateReport", "checkpoint", FALSE)
        /\ Called(r, "updateReport", "outerCatch", FALSE)
        /\ reports[r].status = "processing"
        /\ responses[r] = UploadResponse(r)

----------------------------------------------------------------------------
(* C17 *)

EngineOps == {"analyzeMedicalReport", "extractMedicationInfo"}

\* positions in the log of the calls of an analysis engine
EngineCalls(r) == { i \in 1..Len(Log(r)) : Log(r)[i].op \in EngineOps }

\* positions in the log of the checkpoint write
CheckpointCalls(r) == { i \in 1..Len(Log(r)) : Log(r)[i].site = "checkpoint" }

\* C17: a run that has left Stage 1 has issued the checkpoint updateReport as
\* its next call, whether the extraction returned or threw; the checkpoint
\* that returned stored the originalText and reportType of the run; every
\* analysis-engine call comes after a checkpoint write that returned; and a
\* run whose checkpoint write threw calls no analysis engine.
C17_CheckpointBeforeAnalysis ==
    \A r \in DOMAIN runs :
        /\ runs[r].pc \notin {"extract", "checkpoint"} =>
              /\ CheckpointCalls(r) = {2}
              /\ Log(r)[1].op = "extract"
              /\ Log(r)[2].op = "updateReport"
        /\ Called(r, "updateReport", "checkpoint", TRUE) =>
              /\ reports[r].originalText = runs[r].extractedText
              /\ reports[r].reportType = runs[r].reportType
        /\ \A j \in EngineCalls(r) :
              \E i \in CheckpointCalls(r) : i < j /\ Log(r)[i].ok
        /\ Called(r, "updateReport", "checkpoint", FALSE) => EngineCalls(r) = {}

\* a run whose extraction threw and whose checkpoint write threw has ended
\* without an engine call; the row keeps what createReport stored
C17_Witness ==
    \E r \in DOMAIN runs :
        /\ Done(r)
        /\ Called(r, "extract", "stage1", FALSE)
        /\ Called(r, "updateReport", "checkpoint", FALSE)
        /\ EngineCalls(r) = {}
        /\ reports[r].originalText = Null

----------------------------------------------------------------------------
(* C18 *)

\* positions in the log of a checkpoint or final write that threw
ThrownWrites(r) ==
    { i \in 1..Len(Log(r)) :
        /\ Log(r)[i].op = "updateReport"
        /\ Log(r)[i].site \in {"checkpoint", "final"}
        /\ ~Log(r)[i].ok }

\* C18: after a checkpoint or final write that threw, the run makes one more
\* call and no other: the updateReport of the outer catch block.  When that
\* call returned, the report is failed with the generic technical-failure
\* summary; when it threw too, the run has ended with that call as its last
\* and the report is as the throwing write found it.
C18_OneFailureUpdate ==
    \A r \in DOMAIN runs : \A i \in ThrownWrites(r) :
        /\ Len(Log(r)) <= i + 1
        /\ runs[r].pc \in {"outerCatch", "done"}
        /\ runs[r].pc = "outerCatch" <=> Len(Log(r)) = i
        /\ Done(r) =>
              /\ Len(Log(r)) = i + 1
              /\ Log(r)[i + 1].op = "updateReport"
              /\ Log(r)[i + 1].site = "outerCatch"
              /\ runs[r].promise = "fulfilled"
              /\ IF Log(r)[i + 1].ok
                 THEN /\ reports[r].status = "failed"
                      /\ reports[r].summary = MsgTechnicalFailure
                 ELSE /\ reports[r].status = "processing"
                      /\ reports[r].summary = Null

\* the final write threw, the failure update threw too, and the run is over
C18_Witness ==
    \E r \in DOMAIN runs :
        /\ Done(r)
        /\ Called(r, "updateReport", "final", FALSE)
        /\ Called(r, "updateReport", "outerCatch", FALSE)
        /\ Log(r)[Len(Log(r))].site = "outerCatch"
        /\ reports[r].status = "processing"

----------------------------------------------------------------------------
(* C19 *)

\* a worker.terminate call of the extractTextFromImage call of r threw
TeardownFailed(r) == \E i \in 1..Len(ocr[r].terminate) : ~ocr[r].terminate[i]

\* C19: a settled extractTextFromImage call whose teardown failed reports
\* what the recognition race decided: when recognition rejected or the timer
\* fired, it throws with the message of that error; when recognition
\* resolved, it returns the recognised text.
C19_TeardownFailureKeepsOutcome ==
    \A r \in DOMAIN ocr :
        (OcrSettled(r) /\ TeardownFailed(r)) =>
            /\ ocr[r].raceError # Null => ocr[r].result = OcrThrow(ocr[r].raceError)
            /\ ocr[r].data # Null => ocr[r].result = OcrReturn(ocr[r])

----------------------------------------------------------------------------
(* C20 *)

\* 'Prescription contains N medication(s)'
PrescriptionSummaryText(n) ==
    Str(<<"P","r","e","s","c","r","i","p","t","i","o","n"," ",
          "c","o","n","t","a","i","n","s"," ">>
        \o Digits(n)
        \o <<" ","m","e","d","i","c","a","t","i","o","n","(","s",")">>)

\* the stored report carries the count of, and the entries of, the list the
\* medication engine returned to the run of r
StoredPrescription(r) ==
    /\ reports[r].summary = PrescriptionSummaryText(Len(runs[r].medicationList))
    /\ reports[r].extractedData.type = "object"
    /\ DOMAIN reports[r].extractedData = {"type", "medications"}
    /\ reports[r].extractedData.medications = runs[r].medicationList

\* C20 as stated: when the medication engine returned N entries, the run ends
\* with the summary 'Prescription contains N medication(s)' and the N entries
\* as extractedData, whatever store read or write failed inside the
\* medication fan-out and however many Medication records were created.
C20_PrescriptionSummary ==
    \A r \in DOMAIN runs :
        (Done(r) /\ Called(r, "extractMedicationInfo", "stage2", TRUE)) =>
            StoredPrescription(r)

\* C20 (amended): when the medication engine returned N entries and the
\* final write returned, the report has the summary
\* 'Prescription contains N medication(s)' and the N entries as
\* extractedData, however many createMedication calls threw and however many
\* Medication records were created, provided the getReport read before the
\* fan-out returned; when that read threw, the catch block of the analysis
\* stage has replaced them by the fallback summary and the placeholder
\* object, and no Medication record was created.
C20_PrescriptionSummaryAfterRead ==
    \A r \in DOMAIN runs :
        (/\ Done(r)
         /\ Called(r, "extractMedicationInfo", "stage2", TRUE)
         /\ Called(r, "updateReport", "final", TRUE)) =>
            IF Called(r, "getReport", "medications", TRUE)
            THEN StoredPrescription(r)
            ELSE /\ reports[r].summary = MsgAnalysisFallbackSummary
                 /\ reports[r].extractedData = AnalysisPlaceholder
                 /\ MedicationAttempts(r) = <<>>

\* the engine returned two entries, every createMedication threw so that no
\* Medication record exists, and the report carries the count and the entries
C20_Witness ==
    \E r \in DOMAIN runs :
        /\ Done(r)
        /\ Len(runs[r].medicationList) = 2
        /\ \A k \in 1..2 : Called(r, "createMedication", "loop", FALSE)
        /\ ~Called(r, "createMedication", "loop", TRUE)
        /\ medications = <<>>
        /\ reports[r].status = "completed"
        /\ StoredPrescription(r)

----------------------------------------------------------------------------
(* C21 *)

\* the run of r has called createMedication, whatever the call did
CalledCreateMedication(r) ==
    \E ok \in BOOLEAN : Called(r, "createMedication", "loop", ok)

\* C21: a run calls createMedication only when its reportType is
\* prescription, the medication engine returned at least one entry and the
\* report is in the store; every Medication record carries the id of a stored
\* report, the user id of that report's owner, isActive = true and the name
\* of an entry the engine returned to that report's run; a run of another
\* type, or on an id the store does not hold, calls createMedication never
\* and has no Medication record.
C21_MedicationsOnlyForPrescriptions ==
    /\ \A r \in DOMAIN runs :
        /\ CalledCreateMedication(r) =>
              /\ runs[r].reportType = "prescription"
              /\ Called(r, "extractMedicationInfo", "stage2", TRUE)
              /\ Len(runs[r].medicationList) >= 1
              /\ r \in DOMAIN reports
        /\ (runs[r].reportType # "prescription" \/ r \notin DOMAIN reports) =>
              /\ ~CalledCreateMedication(r)
              /\ \A i \in 1..Len(medications) : medications[i].reportId # r
    /\ \A i \in 1..Len(medications) :
        LET m == medications[i]
        IN  /\ m.reportId \in DOMAIN reports
            /\ m.reportId \in DOMAIN runs
            /\ m.userId = reports[m.reportId].userId
            /\ m.isActive = TRUE
            /\ \E k \in 1..Len(runs[m.reportId].medicationList) :
                  /\ m.name = runs[m.reportId].medicationList[k].name
                  /\ Called(m.reportId, "createMedication", "loop", TRUE)

\* a prescription run has created the records of both entries of the engine
C21_Witness ==
    /\ Len(medications) = 2
    /\ \E r \in DOMAIN runs :
        /\ Done(r)
        /\ runs[r].reportType = "prescription"
        /\ \A i \in 1..2 :
              /\ medications[i].reportId = r
              /\ medications[i].userId = reports[r].userId
              /\ medications[i].isActive = TRUE

\* a prescription run on an id the store does not hold got entries from the
\* engine and has ended without a createMedication call
C21_WitnessOrphan ==
    \E r \in OrphanRuns :
        /\ Done(r)
        /\ runs[r].reportType = "prescription"
        /\ Len(runs[r].medicationList) = 2
        /\ Called(r, "getReport", "medications", TRUE)
        /\ ~CalledCreateMedication(r)
        /\ medications = <<>>

----------------------------------------------------------------------------
(* C22 *)

\* the types for which Stage 2 has an analysis branch
AnalysedTypes == {"blood_test", "general", "prescription"}

\* the final write of r returned and the row holds what it wrote for a type
\* without an analysis branch
StoredWithoutAnalysis(r) ==
    /\ reports[r].summary = EmptyStr
    /\ reports[r].analysis = Null
    /\ reports[r].extractedData = Null
    /\ reports[r].status = "completed"

----------------------------------------------------------------------------
(* C23 *)

\* the row of r holds the result the medical-analysis engine returned, as a
\* failed report whose summary is the message of the extraction error
StoredAnalysisOfFailedExtraction(r) ==
    /\ reports[r].status = "failed"
    /\ reports[r].analysis = runs[r].analysis
    /\ reports[r].extractedData = runs[r].analysis
    /\ runs[r].analysis # Null
    /\ reports[r].summary = runs[r].extractedText
    /\ reports[r].originalText = runs[r].extractedText

\* C23 as stated: a run whose extraction threw has, when it ends, reportType
\* general and one call of the medical-analysis engine on the message of the
\* extraction error; when that call returned, its result is the failed
\* report's analysis and extractedData and the summary is the message of the
\* extraction error.
C23_FailedExtractionAnalysed ==
    \A r \in DOMAIN runs :
        (Done(r) /\ runs[r].extractionFailed) =>
            /\ runs[r].reportType = "general"
            /\ Cardinality(MedicalAnalysisCalls(r)) = 1
            /\ runs[r].engineInput = runs[r].extractedText
            /\ Called(r, "analyzeMedicalReport", "stage2", TRUE) =>
                  StoredAnalysisOfFailedExtraction(r)

\* C23 (amended): a run whose extraction threw keeps reportType general and
\* calls no medication engine; when its checkpoint write returned it has,
\* when it ends, one call of the medical-analysis engine on the message of
\* the extraction error (none when the checkpoint write threw); when that
\* call and the final write returned, the engine's result is the failed
\* report's analysis and extractedData and the summary is the message of the
\* extraction error.
C23_FailedExtractionAnalysedWhenWritesReturn ==
    \A r \in DOMAIN runs :
        runs[r].extractionFailed =>
            /\ runs[r].reportType = "general"
            /\ ~Called(r, "extract", "stage1", TRUE)
            /\ \A ok \in BOOLEAN : ~Called(r, "extractMedicationInfo", "stage2", ok)
            /\ Done(r) =>
                  /\ Cardinality(MedicalAnalysisCalls(r)) =
                        IF Called(r, "updateReport", "checkpoint", TRUE) THEN 1 ELSE 0
                  /\ Called(r, "updateReport", "checkpoint", TRUE) =>
                        runs[r].engineInput = runs[r].extractedText
                  /\ (/\ Called(r, "analyzeMedicalReport", "stage2", TRUE)
                      /\ Called(r, "updateReport", "final", TRUE)) =>
                        StoredAnalysisOfFailedExtraction(r)

\* a run whose extraction threw has ended with the engine's result stored
\* under the message of the extraction error
C23_Witness ==
    \E r \in DOMAIN runs :
        /\ Done(r)
        /\ runs[r].extractionFailed
        /\ Called(r, "extract", "stage1", FALSE)
        /\ Called(r, "analyzeMedicalReport", "stage2", TRUE)
        /\ Truthy(runs[r].analysis.summary)
        /\ runs[r].engineInput = runs[r].extractedText
        /\ StoredAnalysisOfFailedExtraction(r)
        /\ reports[r].summary # runs[r].analysis.summary

----------------------------------------------------------------------------
(* C24 *)

\* the three fields of the row of r that hold the outcome of the analysis
OutcomeFields(row) == <<row.analysis, row.extractedData, row.summary>>

\* C24: in every reachable state a report whose stored status is processing
\* has analysis and extractedData null and no summary (null, as createReport
\* left it); and every step that changes one of the three fields leaves the
\* row with a terminal status.
C24_ProcessingHasNoOutcome ==
    /\ [](\A r \in DOMAIN reports :
            reports[r].status = "processing" =>
                /\ OutcomeFields(reports[r]) = <<Null, Null, Null>>
                /\ ~Truthy(reports[r].summary))
    /\ [][\A r \in DOMAIN reports :
            OutcomeFields(reports'[r]) # OutcomeFields(reports[r]) =>
                reports'[r].status \in Terminal]_vars

\* the engine has returned to a run whose checkpoint is stored, and the row
\* is still processing and empty
C24_Witness ==
    \E r \in DOMAIN runs :
        /\ runs[r].pc = "finalWrite"
        /\ Called(r, "updateReport", "checkpoint", TRUE)
        /\ Called(r, "analyzeMedicalReport", "stage2", TRUE)
        /\ runs[r].analysis # Null
        /\ reports[r].status = "processing"
        /\ reports[r].originalText = runs[r].extractedText
        /\ OutcomeFields(reports[r]) = <<Null, Null, Null>>

----------------------------------------------------------------------------
(* C25 *)

\* positions in the log of the updateReport calls that returned
ReturnedUpdates(r) == { i \in UpdateCalls(r) : Log(r)[i].ok }

\* the sites of the updateReport calls of r
UpdateSites(r) == { Log(r)[i].site : i \in UpdateCalls(r) }

\* the step adds to the log of r one updateReport call that returned
UpdateReturnedInStep(r) ==
    /\ r \in DOMAIN runs
    /\ \E i \in ReturnedUpdates(r)' : i > Len(Log(r))

\* C25 as stated: the only updateReport calls a run issues are the
\* checkpoint write and the final write, and at most two of them return, so
\* the row has at most three versions.
C25_OnlyCheckpointAndFinalWrite ==
    \A r \in DOMAIN runs :
        /\ UpdateSites(r) \subseteq {"checkpoint", "final"}
        /\ Cardinality(ReturnedUpdates(r)) <= 2

\* C25 (amended): the row of a report changes only in a step in which an
\* updateReport call of its own run returns; a run issues updateReport at
\* the checkpoint, at the final write and in the outer catch block and
\* nowhere else, each at most once, the outer catch block's only after a
\* checkpoint or final write that threw; at most two of the calls return, so
\* the row has at most three versions (created, checkpointed, final or
\* failed).
C25_RowChangesOnlyAtWrites ==
    /\ [](\A r \in DOMAIN runs :
            /\ UpdateSites(r) \subseteq {"checkpoint", "final", "outerCatch"}
            /\ \A i, j \in UpdateCalls(r) : Log(r)[i].site = Log(r)[j].site => i = j
            /\ Called(r, "updateReport", "final", TRUE) =>
                  Called(r, "updateReport", "checkpoint", TRUE)
            /\ "outerCatch" \in UpdateSites(r) => ThrownWrites(r) # {}
            /\ Cardinality(ReturnedUpdates(r)) <= 2)
    /\ [][\A r \in DOMAIN reports :
            reports'[r] # reports[r] => UpdateReturnedInStep(r)]_vars

\* the final write of a run threw after its checkpoint was stored, and the
\* write of the outer catch block made the third version of the row
C25_Witness ==
    \E r \in DOMAIN runs :
        /\ Done(r)
        /\ Called(r, "updateReport", "checkpoint", TRUE)
        /\ Called(r, "updateReport", "final", FALSE)
        /\ Called(r, "updateReport", "outerCatch", TRUE)
        /\ Cardinality(ReturnedUpdates(r)) = 2
        /\ reports[r].originalText = runs[r].extractedText
        /\ reports[r].summary = MsgTechnicalFailure

----------------------------------------------------------------------------
(* C26 *)

\* the fields of a row that identify the upload
IdentityFields == {"id", "userId", "fileName", "fileUrl"}

\* the fields the orchestrator and the upload fallback write
PipelineFields ==
    {"originalText", "reportType", "analysis", "extractedData", "summary", "status"}

\* the fields in which two versions of a row differ
ChangedFields(old, new) ==
    { f \in DOMAIN old \cup DOMAIN new :
        f \notin DOMAIN old \/ f \notin DOMAIN new \/ old[f] # new[f] }

----------------------------------------------------------------------------
(* C27 *)

\* the row of r as the upload handler created it
CreatedRow(r) ==
    NewReport(r, UploadInsert(reports[r].userId, r, reports[r].fileName))

\* the row a run alone leaves behind when its collaborators answer as the
\* log and the locals of r record: the created row under the writes of r
\* that returned, in the order the orchestrator issues them
SoloRow(r) ==
    LET checkpointed ==
            IF Called(r, "updateReport", "checkpoint", TRUE)
            THEN UpdatedReport(CreatedRow(r),
                               [ originalText |-> runs[r].extractedText,
                                 reportType |-> runs[r].reportType ], << >>)
            ELSE CreatedRow(r)
        final ==
            IF Called(r, "updateReport", "final", TRUE)
            THEN UpdatedReport(checkpointed, FinalUpdate(runs[r]), << >>)
            ELSE checkpointed
    IN  IF Called(r, "updateReport", "outerCatch", TRUE)
        THEN UpdatedReport(final, FailureUpdate, << >>)
        ELSE final

\* the Medication rows a run alone leaves behind: one for each
\* createMedication call of r that returned, in order (ids apart, which are
\* random)
SoloMedications(r) ==
    [i \in 1..Len(CreatedIndexes(r)) |->
        NewMedication(0, MedicationInsert(CreatedRow(r),
                                          runs[r].medicationList[CreatedIndexes(r)[i]]))]

\* the timeline entries a run alone leaves behind (ids apart)
SoloTimeline(r) ==
    IF Called(r, "createHealthTimelineEntry", "timeline", TRUE)
    THEN << NewTimelineEntry(0, TimelineInsert(CreatedRow(r), runs[r])) >>
    ELSE << >>

\* the rows of a collection linked to report r, in insertion order, ids apart
LinkedTo(rows, r) ==
    LET own == SelectSeq(rows, LAMBDA m : m.reportId = r)
    IN  [i \in 1..Len(own) |-> [own[i] EXCEPT !.id = 0]]

\* the runs that take the step
Stepping == { r \in DOMAIN runs : runs'[r] # runs[r] }

\* the step leaves the rows of a collection as they are or appends rows
\* linked to the report of the run that takes the step
AppendsOwn(rows, rows2) ==
    /\ Len(rows2) >= Len(rows)
    /\ \A i \in 1..Len(rows) : rows2[i] = rows[i]
    /\ \A i \in (Len(rows) + 1)..Len(rows2) : rows2[i].reportId \in Stepping

\* C27: with two runs on distinct ids under way, in every interleaving each
\* step is the step of one run, changes no row but that run's and appends
\* Medication rows and timeline entries linked to that run's report only;
\* and at every moment each report's row, Medication rows and timeline
\* entries are those its run alone produces with the same collaborator
\* outcomes.
C27_RunsDoNotInterfere ==
    /\ [](\A r \in DOMAIN runs :
            /\ reports[r] = SoloRow(r)
            /\ LinkedTo(medications, r) = SoloMedications(r)
            /\ LinkedTo(healthTimeline, r) = SoloTimeline(r))
    /\ [][/\ Cardinality(Stepping) = 1
          /\ DOMAIN reports' = DOMAIN reports
          /\ \A q \in DOMAIN reports : reports'[q] # reports[q] => q \in Stepping
          /\ AppendsOwn(medications, medications')
          /\ AppendsOwn(healthTimeline, healthTimeline')]_vars

\* both runs have ended as prescriptions of two entries each after their
\* createMedication calls alternated, and both have their timeline entry
C27_Witness ==
    /\ \A r \in DOMAIN runs :
        /\ Done(r)
        /\ reports[r].status = "completed"
        /\ reports[r].userId = PairOwners[r]
        /\ Len(LinkedTo(healthTimeline, r)) = 1
    /\ Len(medications) = 4
    /\ medications[1].reportId = 2
    /\ medications[2].reportId = 1
    /\ medications[3].reportId = 2
    /\ medications[4].reportId = 1
    /\ healthTimeline[1].reportId = 1

----------------------------------------------------------------------------
(* C28 *)

\* C28: in the earlier variant, once a write of status completed has taken
\* effect for a report, no later step (a failure while reading the report or
\* while creating the timeline entry included) leaves the report with
\* another status.
C28_EarlyStatusMonotonic ==
    [][\A r \in DOMAIN reports :
          reports[r].status = "completed" => reports'[r].status = "completed"]_vars

\* a report of the earlier variant that was written completed is failed
\* after its timeline step threw
C28_Rewritten ==
    \E r \in DOMAIN runs :
        /\ Done(r)
        /\ Called(r, "updateReport", "final", TRUE)
        /\ \/ Called(r, "getReport", "timeline", FALSE)
           \/ Called(r, "createHealthTimelineEntry", "timeline", FALSE)
        /\ Called(r, "updateReport", "outerCatch", TRUE)
        /\ reports[r].status = "failed"
        /\ reports[r].summary = MsgProcessingFailed
        /\ reports[r].analysis = runs[r].analysis

----------------------------------------------------------------------------
(* C29 *)

\* the successful responses of a route
Disclosures(route) ==
    { i \in DOMAIN replies : replies[i].route = route /\ replies[i].code = 200 }

\* C29: every report GET /api/reports/:id returns belongs to the session
\* user, and every report GET /api/share/:token returns belongs to the user
\* who created that share, whatever shares the users create and view.
C29_DisclosedOnlyToOwnerOrByOwner ==
    /\ \A i \in Disclosures("GET /api/reports/:id") :
          \A k \in DOMAIN replies[i].reports :
              replies[i].reports[k].userId = replies[i].session
    /\ \A i \in Disclosures("GET /api/share/:token") :
          \A k \in DOMAIN replies[i].reports :
              replies[i].reports[k].userId = sharedReports[replies[i].share].userId

\* a view of a share created by one user has returned a report of the other
C29_ForeignReportShared ==
    \E i \in Disclosures("GET /api/share/:token") :
        /\ sharedReports[replies[i].share].userId = PairOwners[2]
        /\ sharedReports[replies[i].share].reportIds = <<1>>
        /\ Len(replies[i].reports) = 1
        /\ replies[i].reports[1].id = 1
        /\ replies[i].reports[1].userId = PairOwners[1]

----------------------------------------------------------------------------
(* C30 *)

\* the register requests for an email that were answered with a new user
Created(email) ==
    { i \in DOMAIN replies :
        /\ replies[i].route = "POST /api/auth/register"
        /\ replies[i].email = email
        /\ replies[i].code = 200 }

\* C30: no two stored users have the same email, and of the register
\* requests for one email at most one is answered with a new user, in every
\* interleaving of the requests.
C30_EmailsUnique ==
    /\ \A i, j \in DOMAIN users : users[i].email = users[j].email => i = j
    /\ \A email \in Emails : Cardinality(Created(email)) <= 1

\* two register requests for one email were both answered with a new user,
\* and the store holds both
C30_TwoUsersOneEmail ==
    \E email \in Emails :
        /\ Cardinality(Created(email)) = 2
        /\ Len(users) = 2
        /\ users[1].email = email
        /\ users[2].email = email
        /\ users[1].id # users[2].id

====
